---- MODULE Spec2Model ----
(***************************************************************************)
(* A model of the Seedtime garden renderer                                 *)
(* (custom_components/seedtime/garden_renderer.py).                        *)
(*                                                                         *)
(* The renderer is a set of pure functions over loosely typed nested       *)
(* mappings.  Each function is an operator, computed the way the code      *)
(* computes it; each specification below builds an input step by step and  *)
(* then applies one function to it in a single action.                     *)
(*                                                                         *)
(*   SpecOrder : _build_render_order on landmarks, locations and groups    *)
(*   SpecPath  : _shape_to_path on a shape                                 *)
(*   Spec      : render_garden_svg on a garden plan                        *)
(*   SpecLoc   : _render_planting_location on a location and its           *)
(*               formations                                                *)
(*   SpecRepeat: render_garden_svg called several times in a row           *)
(*   SpecRows  : _plant_positions_from_rows on the rows of a cluster       *)
(*   SpecLandmark : _render_landmark on a landmark                         *)
(*   SpecCentroid : _shape_centroid on a shape                             *)
(*   SpecFormation : _render_formation on a formation and its clusters     *)
(*                                                                         *)
(* and of the code around it that fetches the plan and serves the image:   *)
(*                                                                         *)
(*   SpecQuery : SeedtimeApiClient.graphql_query (api.py), one request     *)
(*               and its answer per step                                   *)
(*   SpecImage : SeedtimeGardenImage.async_image (image.py), concurrent    *)
(*               calls and coordinator updates                             *)
(*   SpecEntry : async_setup_entry, async_unload_entry and the options     *)
(*               listener (__init__.py) over the life of a config entry    *)
(*   SpecFlow  : SeedtimeConfigFlow.async_step_user (config_flow.py)       *)
(***************************************************************************)
EXTENDS Integers, Sequences, FiniteSets, TLC

VARIABLES
    pcOrder,        \* "input" while the planner's arguments are built, then "done"
    landmarks,      \* _build_render_order: argument landmarks
    locations,      \* _build_render_order: argument locations
    groups,         \* _build_render_order: argument groups
    result,         \* _build_render_order: the returned list of (kind, item)
    pcPath,         \* "input" while the shape is built, then "done"
    shape,          \* _shape_to_path: argument shape
    damaged,        \* how many leaves of shape were made malformed
    d,              \* _shape_to_path: the returned path, or the exception raised
    pcScene,        \* "input" while the plan is built, then "done"
    garden_data,    \* render_garden_svg: argument garden_data
    render_list,    \* render_garden_svg: its local render_list
    svg,            \* render_garden_svg: the returned document, or the exception
    pcLoc,          \* "input" while the location is built, then "done"
    location,       \* _render_planting_location: argument loc
    locSvg,         \* _render_planting_location: the returned fragment, or the exception
    calls,          \* the calls of render_garden_svg so far: argument and outcome of each
    pcRows,         \* "input" while the rows are built, then "done"
    rowsArg,        \* _plant_positions_from_rows: argument rows
    spacingArg,     \* _plant_positions_from_rows: argument plant_spacing, in thousandths
    rowPositions,   \* _plant_positions_from_rows: the returned positions, or the exception
    pcLm,           \* "input" while the landmark is built, then "done"
    landmarkArg,    \* _render_landmark: argument lm
    lmSvg,          \* _render_landmark: the returned fragment, or the exception
    pcCentroid,     \* "input" while the shape is built, then "done"
    centroidArg,    \* _shape_centroid: argument shape
    centroid,       \* _shape_centroid: the returned pair, or the exception
    pcFormation,    \* "input" while the formation is built, then "done"
    formationArg,   \* _render_formation: argument formation
    formationSvg,   \* _render_formation: the returned fragment, or the exception
    pcQuery,        \* graphql_query: "idle", "ensure", "post" (top of the loop), "done"
    authenticated,  \* SeedtimeApiClient._authenticated
    attemptNo,      \* graphql_query: the loop variable attempt
    responses,      \* the answers to the requests this call has sent, in order
    reauths,        \* how often this call ran authenticate() from inside the loop
    queryResult,    \* graphql_query: what the call returned or raised
    queries,        \* how many calls have been started
    coordinatorData, \* SeedtimeGardenImage.coordinator.data
    cached_svg,     \* SeedtimeGardenImage._cached_svg
    cached_hash,    \* SeedtimeGardenImage._cached_hash
    imageCalls,     \* the calls of async_image: position, locals, what each returned
    updates,        \* how many coordinator updates have happened
    hassEntry,      \* the config entry, its sessions and its platforms
    flow            \* the config flow: its steps so far and where it stands

orderVars == <<pcOrder, landmarks, locations, groups, result>>
pathVars == <<pcPath, shape, damaged, d>>
sceneVars == <<pcScene, garden_data, render_list, svg>>
locVars == <<pcLoc, location, locSvg>>
repeatVars == <<calls>>
rowsVars == <<pcRows, rowsArg, spacingArg, rowPositions>>
landmarkVars == <<pcLm, landmarkArg, lmSvg>>
centroidVars == <<pcCentroid, centroidArg, centroid>>
formationVars == <<pcFormation, formationArg, formationSvg>>
elementVars == <<rowsVars, landmarkVars, centroidVars, formationVars>>
queryVars == <<pcQuery, authenticated, attemptNo, responses, reauths, queryResult, queries>>
imageVars == <<coordinatorData, cached_svg, cached_hash, imageCalls, updates>>
entryVars == <<hassEntry>>
flowVars == <<flow>>
integrationVars == <<queryVars, imageVars, entryVars, flowVars>>
vars == <<orderVars, pathVars, sceneVars, locVars, repeatVars, elementVars, integrationVars>>

----------------------------------------------------------------------------
(* Python values.  A dict entry is absent, None, a number or a string.     *)

Absent == [t |-> "absent"]
None == [t |-> "None"]
\* a number, carried in thousandths: Num(1004) is 1.004
Num(n) == [t |-> "num", v |-> n]
StrV(s) == [t |-> "str", v |-> s]
Bool(b) == [t |-> "bool", v |-> b]
List(s) == [t |-> "list", v |-> s]
\* the dict {"x": x, "y": y}; x or y may be Absent
Pt(x, y) == [t |-> "dict", x |-> x, y |-> y]

\* the outcome of a call: a returned value or a raised exception
Ok(v) == [ok |-> TRUE, v |-> v]
Raise(e) == [ok |-> FALSE, exc |-> e]

\* d.get(k): an absent key reads as None
Get(v) == IF v = Absent THEN None ELSE v

\* Python truthiness of a value read with d.get(k)
Truthy(v) ==
    CASE v.t = "absent" -> FALSE
      [] v.t = "None" -> FALSE
      [] v.t = "num" -> v.v # 0
      [] v.t = "str" -> v.v # ""
      [] v.t = "list" -> v.v # <<>>
      [] v.t = "dict" -> \E k \in (DOMAIN v) \ {"t"} : v[k] # Absent
      [] v.t = "bool" -> v.v
      [] OTHER -> TRUE

\* x.get("index") if x.get("index") is not None else 0
IndexOrZero(x) == IF Get(x.index) = None THEN 0 ELSE x.index.v

----------------------------------------------------------------------------
(* Bounds of the model. *)

\* landmarks plus locations handed to the planner
MaxItems == 3
\* groups handed to the planner
MaxGroups == 2
\* the largest index value an item or a group carries
MaxIndex == 2

IndexVals == {None} \cup {Num(i) : i \in 1..MaxIndex}
\* the id of the n-th group of a plan
GroupIdAt(n) == StrV("g" \o ToString(n))
\* groupId values of an item; a group of that id need not exist in the plan
GroupRefs == {None} \cup {GroupIdAt(n) : n \in 1..MaxGroups}

----------------------------------------------------------------------------
(* _build_render_order *)

\* the map with the hidden groups in it too
RECURSIVE GroupIndexMapWithHidden(_, _)
GroupIndexMapWithHidden(grps, acc) ==
    IF grps = <<>> THEN acc
    ELSE GroupIndexMapWithHidden(Tail(grps),
            [k \in (DOMAIN acc) \cup {Head(grps).id} |->
                IF k = Head(grps).id THEN IndexOrZero(Head(grps)) ELSE acc[k]])

\* lines 138-141: non-hidden group id -> index; a later group of the same id
\* overwrites an earlier one
RECURSIVE GroupIndexMapFrom(_, _)
GroupIndexMapFrom(grps, acc) ==
    IF grps = <<>> THEN acc
    ELSE LET grp == Head(grps)
             nxt == IF grp.hidden THEN acc
                    ELSE [k \in (DOMAIN acc) \cup {grp.id} |->
                            IF k = grp.id THEN IndexOrZero(grp) ELSE acc[k]]
         IN  GroupIndexMapFrom(Tail(grps), nxt)

EmptyMap == [k \in {} |-> 0]

GroupIndexMap(grps) == GroupIndexMapFrom(grps, EmptyMap)

\* lines 150-151 and 160-161: group_id and group_id in group_index_map
IsGrouped(item, gmap) ==
    LET group_id == Get(item.groupId)
    IN  Truthy(group_id) /\ group_id \in DOMAIN gmap

\* the hidden test left out: nothing is skipped
SkipNothing(item) == FALSE

\* lines 148-149, 158-159, 248: if x.get("hidden"): continue
SkipHidden(item) == item.hidden

\* an item that is not skipped
IsShownItem(item) == ~SkipHidden(item)

\* lines 147-165: the non-hidden landmarks, then the non-hidden locations,
\* each tagged with its kind
Tagged(kind, items) == [i \in 1..Len(items) |-> [kind |-> kind, item |-> items[i]]]

IsShown(e) == ~SkipHidden(e.item)

Visible(lms, locs) ==
    SelectSeq(Tagged("landmark", lms) \o Tagged("location", locs), IsShown)

\* lines 144, 152, 162: grouped_items, a dict in insertion order: its keys in
\* the order in which the loops first met them
RECURSIVE GroupKeys(_, _, _)
GroupKeys(es, gmap, keys) ==
    IF es = <<>> THEN keys
    ELSE LET e == Head(es)
             gid == Get(e.item.groupId)
             seen == \E i \in 1..Len(keys) : keys[i] = gid
         IN  GroupKeys(Tail(es), gmap,
                       IF IsGrouped(e.item, gmap) /\ ~seen
                       THEN Append(keys, gid) ELSE keys)

\* grouped_items[gid] with each member put in front of the earlier ones
RECURSIVE MembersOfReversed(_, _, _)
MembersOfReversed(es, gmap, gid) ==
    IF es = <<>> THEN <<>>
    ELSE IF IsGrouped(Head(es).item, gmap) /\ Get(Head(es).item.groupId) = gid
         THEN MembersOfReversed(Tail(es), gmap, gid) \o <<Head(es)>>
         ELSE MembersOfReversed(Tail(es), gmap, gid)

\* grouped_items[gid] assigned instead of appended to: only the member met
\* last is kept
MembersOfLastOnly(es, gmap, gid) ==
    IF MembersOfReversed(es, gmap, gid) = <<>> THEN <<>>
    ELSE <<Head(MembersOfReversed(es, gmap, gid))>>

\* grouped_items[gid]
RECURSIVE MembersOf(_, _, _)
MembersOf(es, gmap, gid) ==
    IF es = <<>> THEN <<>>
    ELSE LET e == Head(es)
             rest == MembersOf(Tail(es), gmap, gid)
         IN  IF IsGrouped(e.item, gmap) /\ Get(e.item.groupId) = gid
             THEN <<e>> \o rest ELSE rest

\* lines 145, 153-155, 163-165: ungrouped, each with its own index
RECURSIVE Ungrouped(_, _)
Ungrouped(es, gmap) ==
    IF es = <<>> THEN <<>>
    ELSE LET e == Head(es)
             rest == Ungrouped(Tail(es), gmap)
         IN  IF IsGrouped(e.item, gmap) THEN rest
             ELSE <<[key |-> IndexOrZero(e.item), items |-> <<e>>]>> \o rest

\* every grouped member as a unit of its own at the group's index
RenderUnitsPerMember(es, gmap) ==
    [i \in 1..Len(es) |->
        [key |-> IF IsGrouped(es[i].item, gmap)
                 THEN gmap[Get(es[i].item.groupId)] ELSE IndexOrZero(es[i].item),
         items |-> <<es[i]>>]]

\* lines 167-177: one unit per group at the group's index, then one unit per
\* ungrouped item
RenderUnits(es, gmap) ==
    LET keys == GroupKeys(es, gmap, <<>>)
    IN  [i \in 1..Len(keys) |->
            [key |-> gmap[keys[i]], items |-> MembersOf(es, gmap, keys[i])]]
        \o Ungrouped(es, gmap)

\* the sort without reverse=True
ComesBeforeAscending(u, v) == u.key < v.key

\* line 183: list.sort(key=..., reverse=True) is stable: u goes before v when
\* u's key is higher; units of equal key keep their order
ComesBefore(u, v) == u.key > v.key

\* a sort that is not stable: a unit goes before the units of equal key
RECURSIVE InsertUnitBeforeEqual(_, _)
InsertUnitBeforeEqual(u, sorted) ==
    IF sorted = <<>> THEN <<u>>
    ELSE IF u.key >= Head(sorted).key THEN <<u>> \o sorted
         ELSE <<Head(sorted)>> \o InsertUnitBeforeEqual(u, Tail(sorted))

RECURSIVE InsertUnit(_, _)
InsertUnit(u, sorted) ==
    IF sorted = <<>> THEN <<u>>
    ELSE IF ComesBefore(u, Head(sorted)) THEN <<u>> \o sorted
         ELSE <<Head(sorted)>> \o InsertUnit(u, Tail(sorted))

RECURSIVE SortUnits(_, _)
SortUnits(units, sorted) ==
    IF units = <<>> THEN sorted
    ELSE SortUnits(Tail(units), InsertUnit(Head(units), sorted))

\* lines 186-188: result.extend(items) for each unit
RECURSIVE Flatten(_)
Flatten(units) ==
    IF units = <<>> THEN <<>> ELSE Head(units).items \o Flatten(Tail(units))

BuildRenderOrder(lms, locs, grps) ==
    LET gmap == GroupIndexMap(grps)
        es == Visible(lms, locs)
    IN  Flatten(SortUnits(RenderUnits(es, gmap), <<>>))

----------------------------------------------------------------------------
(* SpecOrder: the planner's arguments are built one entity at a time, then *)
(* _build_render_order runs once.                                          *)

\* the variables of the other specifications
notOrderVars == <<pathVars, sceneVars, locVars, repeatVars, elementVars, integrationVars>>
notPathVars == <<orderVars, sceneVars, locVars, repeatVars, elementVars, integrationVars>>
notSceneVars == <<orderVars, pathVars, locVars, repeatVars, elementVars, integrationVars>>
notLocVars == <<orderVars, pathVars, sceneVars, repeatVars, elementVars, integrationVars>>
notRepeatVars == <<orderVars, pathVars, sceneVars, locVars, elementVars, integrationVars>>
plannerVars == <<orderVars, pathVars, sceneVars, locVars, repeatVars>>
notRowsVars == <<plannerVars, landmarkVars, centroidVars, formationVars, integrationVars>>
notLandmarkVars == <<plannerVars, rowsVars, centroidVars, formationVars, integrationVars>>
notCentroidVars == <<plannerVars, rowsVars, landmarkVars, formationVars, integrationVars>>
notFormationVars == <<plannerVars, rowsVars, landmarkVars, centroidVars, integrationVars>>

OrderIdle ==
    /\ pcOrder = "idle"
    /\ landmarks = <<>>
    /\ locations = <<>>
    /\ groups = <<>>
    /\ result = <<>>

PathIdle ==
    /\ pcPath = "idle"
    /\ shape = [t |-> "dict", segments |-> List(<<>>)]
    /\ damaged = 0
    /\ d = Ok(<<>>)

SceneIdle ==
    /\ pcScene = "idle"
    /\ garden_data = [gardenPlan |-> Absent]
    /\ render_list = <<>>
    /\ svg = Ok(<<>>)

LocIdle ==
    /\ pcLoc = "idle"
    /\ location = None
    /\ locSvg = Ok(<<>>)

RepeatIdle == calls = <<>>

RowsIdle ==
    /\ pcRows = "idle"
    /\ rowsArg = <<>>
    /\ spacingArg = 0
    /\ rowPositions = Ok(<<>>)

LandmarkIdle ==
    /\ pcLm = "idle"
    /\ landmarkArg = None
    /\ lmSvg = Ok(<<>>)

CentroidIdle ==
    /\ pcCentroid = "idle"
    /\ centroidArg = None
    /\ centroid = Ok(<<0, 0>>)

FormationIdle ==
    /\ pcFormation = "idle"
    /\ formationArg = None
    /\ formationSvg = Ok(<<>>)

QueryIdle ==
    /\ pcQuery = "idle"
    /\ authenticated = FALSE
    /\ attemptNo = 0
    /\ responses = <<>>
    /\ reauths = 0
    /\ queryResult = Ok("none")
    /\ queries = 0

\* lines 39-49 of image.py: the cache is empty; no call of async_image yet
ImageIdle ==
    /\ coordinatorData = None
    /\ cached_svg = None
    /\ cached_hash = None
    /\ imageCalls = <<>>
    /\ updates = 0

\* a config entry as the config flow creates it (config_flow.py lines 80-83:
\* enable_calendar is DEFAULT_ENABLE_CALENDAR), not set up yet
NewEntry ==
    [options |-> [enable_calendar |-> [t |-> "bool", v |-> TRUE]],
     state |-> "not_loaded",
     sessions |-> <<>>,
     runtime_session |-> 0,
     forwarded |-> <<>>,
     unloads |-> <<>>,
     setups |-> 0]

EntryIdle == hassEntry = NewEntry

\* a config flow that has not run a step
FlowIdle == flow = [pc |-> "open", steps |-> <<>>]

IntegrationIdle == QueryIdle /\ ImageIdle /\ EntryIdle /\ FlowIdle

\* the renderer's functions at rest
RendererIdle ==
    /\ OrderIdle /\ PathIdle /\ SceneIdle /\ LocIdle /\ RepeatIdle
    /\ RowsIdle /\ LandmarkIdle /\ CentroidIdle /\ FormationIdle

ElementsIdle == RowsIdle /\ LandmarkIdle /\ CentroidIdle /\ FormationIdle /\ IntegrationIdle

PlannerIdle == OrderIdle /\ PathIdle /\ SceneIdle /\ LocIdle /\ RepeatIdle /\ IntegrationIdle

InitOrder ==
    /\ pcOrder = "input"
    /\ landmarks = <<>>
    /\ locations = <<>>
    /\ groups = <<>>
    /\ result = <<>>
    /\ PathIdle /\ SceneIdle /\ LocIdle /\ RepeatIdle /\ ElementsIdle

AddLandmark ==
    /\ pcOrder = "input"
    /\ Len(landmarks) + Len(locations) < MaxItems
    /\ \E idx \in IndexVals, gid \in GroupRefs, hid \in BOOLEAN :
          landmarks' = Append(landmarks,
              [name |-> "lm" \o ToString(Len(landmarks) + 1),
               index |-> idx, groupId |-> gid, hidden |-> hid])
    /\ UNCHANGED <<pcOrder, locations, groups, result>>
    /\ UNCHANGED notOrderVars

AddLocation ==
    /\ pcOrder = "input"
    /\ Len(landmarks) + Len(locations) < MaxItems
    /\ \E idx \in IndexVals, gid \in GroupRefs, hid \in BOOLEAN :
          locations' = Append(locations,
              [name |-> "loc" \o ToString(Len(locations) + 1),
               index |-> idx, groupId |-> gid, hidden |-> hid])
    /\ UNCHANGED <<pcOrder, landmarks, groups, result>>
    /\ UNCHANGED notOrderVars

AddGroup ==
    /\ pcOrder = "input"
    /\ Len(groups) < MaxGroups
    /\ \E idx \in IndexVals, hid \in BOOLEAN :
          groups' = Append(groups,
              [id |-> GroupIdAt(Len(groups) + 1), index |-> idx, hidden |-> hid])
    /\ UNCHANGED <<pcOrder, landmarks, locations, result>>
    /\ UNCHANGED notOrderVars

CallBuildRenderOrder ==
    /\ pcOrder = "input"
    /\ result' = BuildRenderOrder(landmarks, locations, groups)
    /\ pcOrder' = "done"
    /\ UNCHANGED <<landmarks, locations, groups>>
    /\ UNCHANGED notOrderVars

NextOrder == AddLandmark \/ AddLocation \/ AddGroup \/ CallBuildRenderOrder

SpecOrder == InitOrder /\ [][NextOrder]_vars

----------------------------------------------------------------------------
(* Properties of the render order, stated on the planner's arguments and   *)
(* its result.                                                             *)

\* the non-hidden group an entry's groupId names, if there is one
GroupsOf(e) ==
    {i \in 1..Len(groups) : ~groups[i].hidden /\ groups[i].id = e.item.groupId}

InGroup(e) == GroupsOf(e) # {}

\* the render unit an entry belongs to: its group, or the entry itself
UnitName(e) ==
    IF InGroup(e) THEN "group:" \o e.item.groupId.v
    ELSE e.kind \o ":" \o e.item.name

OwnIndex(e) == IF e.item.index = None THEN 0 ELSE e.item.index.v

\* the key of an entry's unit: the group's index for a grouped entry, its own
\* index otherwise
UnitKey(e) ==
    IF InGroup(e)
    THEN LET g == groups[CHOOSE i \in GroupsOf(e) : TRUE]
         IN  IF g.index = None THEN 0 ELSE g.index.v
    ELSE OwnIndex(e)

\* C1: in the returned sequence, of two entries whose units have different
\* keys the one with the higher key comes earlier.
C1_DescendingKeys ==
    pcOrder = "done" =>
        \A i, j \in 1..Len(result) :
            UnitKey(result[i]) > UnitKey(result[j]) => i < j

\* C1 witness: a location of a higher index was emitted before a landmark of
\* a lower index, both ungrouped.
C1_Witness ==
    /\ pcOrder = "done"
    /\ \E i, j \in 1..Len(result) :
          /\ i < j
          /\ result[i].kind = "location" /\ result[j].kind = "landmark"
          /\ ~InGroup(result[i]) /\ ~InGroup(result[j])
          /\ OwnIndex(result[i]) = 2 /\ OwnIndex(result[j]) = 1

\* C2: the members of one group are emitted contiguously, and the block lies
\* where the group's index puts it: after every entry of a higher key and
\* before every entry of a lower key, whatever the members' own indices.
C2_GroupContiguous ==
    pcOrder = "done" =>
        \A i, j \in 1..Len(result) :
            (i < j /\ InGroup(result[i])
                   /\ UnitName(result[i]) = UnitName(result[j])) =>
                /\ \A k \in i..j : UnitName(result[k]) = UnitName(result[i])
                /\ \A k \in 1..Len(result) :
                      UnitName(result[k]) # UnitName(result[i]) =>
                          /\ UnitKey(result[k]) > UnitKey(result[i]) => k < i
                          /\ UnitKey(result[k]) < UnitKey(result[i]) => k > j

\* C2 witness: two members of one group were emitted next to each other
\* although an ungrouped entry has an index strictly between their own.
C2_Witness ==
    /\ pcOrder = "done"
    /\ \E i, j, k \in 1..Len(result) :
          /\ j = i + 1
          /\ InGroup(result[i]) /\ UnitName(result[i]) = UnitName(result[j])
          /\ ~InGroup(result[k])
          /\ OwnIndex(result[i]) < OwnIndex(result[k])
          /\ OwnIndex(result[k]) < OwnIndex(result[j])

----------------------------------------------------------------------------
(* _shape_to_path                                                          *)
(*                                                                         *)
(* A path is the sequence of its commands; the empty path is <<>>.  The    *)
(* numbers of a command are what the format spec .2f prints, in            *)
(* hundredths.                                                             *)

\* segments of a shape
MaxSegments == 3
\* control points of a segment
MaxCps == 2
\* leaves of a shape that are made malformed
MaxDamage == 2

\* x[key] on a dict or on None
Subscript(x, key) ==
    IF x.t = "None" THEN Raise("TypeError")
    ELSE IF x[key] = Absent THEN Raise("KeyError")
    ELSE Ok(x[key])

\* .2f of a number in thousandths, in hundredths.  The model's numbers have a
\* last digit other than 5, so the nearest hundredth is unique.
Round2(n) == (n + 5) \div 10

\* f"{c:.2f}": None has no such format (TypeError), a str rejects the format
\* code f (ValueError)
Format2(c) ==
    CASE c.t = "num" -> Ok(Round2(c.v))
      [] c.t = "None" -> Raise("TypeError")
      [] c.t = "str" -> Raise("ValueError")
      [] OTHER -> Raise("TypeError")

\* f"{c:.1f}", in tenths
Format1(c) ==
    CASE c.t = "num" -> Ok((c.v + 50) \div 100)
      [] c.t = "None" -> Raise("TypeError")
      [] c.t = "str" -> Raise("ValueError")
      [] OTHER -> Raise("TypeError")

\* the outcome of F on the value of x, or the exception x raised
Then(x, F(_)) == IF x.ok THEN F(x.v) ELSE x

\* a one-element list of the value of x
One(x) == IF x.ok THEN Ok(<<x.v>>) ELSE x

\* the lists of a and b joined; a is evaluated first, and the first exception
\* ends the evaluation
ConcatOk(a, b) == IF ~a.ok THEN a ELSE IF ~b.ok THEN b ELSE Ok(a.v \o b.v)

\* try: x except excs: return v
Catch(x, excs, v) == IF x.ok \/ x.exc \notin excs THEN x ELSE Ok(v)

\* f"{p['x']:.2f}"
FormatCoord(p, key) == Then(Subscript(p, key), Format2)

\* f"{p['x']:.2f} {p['y']:.2f}"
FormatPoint(p) == ConcatOk(One(FormatCoord(p, "x")), One(FormatCoord(p, "y")))

\* the coordinates of the points ps, x then y, formatted left to right
RECURSIVE FormatPoints(_)
FormatPoints(ps) ==
    IF ps = <<>> THEN Ok(<<>>)
    ELSE ConcatOk(FormatPoint(Head(ps)), FormatPoints(Tail(ps)))

\* line 34: seg.get("bezierControlPoints") or []
ControlPoints(seg) ==
    LET cps == Get(seg.bezierControlPoints)
    IN  IF Truthy(cps) THEN cps.v ELSE <<>>

\* the end point taken from the segment's own start
EndIndexNoWrap(i, n) == i

\* lines 36-39: the index of the segment whose start ends segment i
EndIndex(i, n) == IF i + 1 <= n THEN i + 1 ELSE 1

\* lines 41-56: the command letter and the points it prints, by the number of
\* control points
DrawLetter(cps) == IF Len(cps) >= 2 THEN "C" ELSE IF Len(cps) = 1 THEN "Q" ELSE "L"

DrawPoints(cps, end) ==
    IF Len(cps) >= 2 THEN <<cps[1], cps[2], end>>
    ELSE IF Len(cps) = 1 THEN <<cps[1], end>>
    ELSE <<end>>

Command(op, args) == Ok([op |-> op, args |-> args])

\* lines 34-56: the draw command of segment i
DrawCommand(segs, i) ==
    Then(Subscript(segs[EndIndex(i, Len(segs))], "start"),
         LAMBDA end :
            Then(FormatPoints(DrawPoints(ControlPoints(segs[i]), end)),
                 LAMBDA a : Command(DrawLetter(ControlPoints(segs[i])), a)))

\* lines 33-56: the draw commands of segments i..Len(segs), in order
RECURSIVE DrawCommands(_, _)
DrawCommands(segs, i) ==
    IF i > Len(segs) THEN Ok(<<>>)
    ELSE ConcatOk(One(DrawCommand(segs, i)), DrawCommands(segs, i + 1))

\* lines 30-31: the move-to
MoveTo(segs) ==
    Then(Subscript(segs[1], "start"),
         LAMBDA first : Then(FormatPoints(<<first>>), LAMBDA m : Command("M", m)))

\* lines 29-59: the body of the try
PathParts(segs) ==
    ConcatOk(ConcatOk(One(MoveTo(segs)), DrawCommands(segs, 1)),
             Ok(<<[op |-> "Z", args |-> <<>>]>>))

\* line 60: except (KeyError, TypeError, IndexError)
Caught == {"KeyError", "TypeError", "IndexError"}

\* lines 24-62; shape.get on a None shape is an AttributeError
ShapeToPath(sh) ==
    LET segments == IF sh.segments = Absent THEN List(<<>>) ELSE sh.segments
    IN  IF sh.t = "None" THEN Raise("AttributeError")
        ELSE IF ~Truthy(segments) THEN Ok(<<>>)
        ELSE Catch(PathParts(segments.v), Caught, <<>>)

----------------------------------------------------------------------------
(* SpecPath: a shape is built segment by segment from well-formed points,  *)
(* up to MaxDamage of its leaves are made malformed, then _shape_to_path   *)
(* runs once.                                                              *)

GoodStarts == {Pt(Num(0), Num(1004)), Pt(Num(2006), Num(3000))}
GoodCp1 == Pt(Num(1004), Num(1004))
GoodCp2 == Pt(Num(2006), Num(2006))
GoodCpLists == {<<>>, <<GoodCp1>>, <<GoodCp1, GoodCp2>>, <<GoodCp1, GoodCp2, GoodCp1>>}
\* a missing or None bezierControlPoints reads as no control points
GoodCps == {Absent, None} \cup {List(l) : l \in {c \in GoodCpLists : Len(c) <= MaxCps}}
\* what a malformed coordinate holds
BadCoords == {Absent, None, StrV("a")}

InitPath ==
    /\ pcPath = "input"
    /\ shape = [t |-> "dict", segments |-> List(<<>>)]
    /\ damaged = 0
    /\ d = Ok(<<>>)
    /\ OrderIdle /\ SceneIdle /\ LocIdle /\ RepeatIdle /\ ElementsIdle

Segs == shape.segments.v

AddSegment ==
    /\ pcPath = "input"
    /\ damaged = 0
    /\ Len(Segs) < MaxSegments
    /\ \E st \in GoodStarts, cps \in GoodCps :
          shape' = [t |-> "dict", segments |-> List(Append(Segs,
              [t |-> "dict", start |-> st, bezierControlPoints |-> cps]))]
    /\ UNCHANGED <<pcPath, damaged, d>>
    /\ UNCHANGED notPathVars

\* segment i loses its start, or its start becomes None
DamageStart ==
    /\ pcPath = "input"
    /\ damaged < MaxDamage
    /\ \E i \in 1..Len(Segs), bad \in {Absent, None} :
          /\ Segs[i].start.t = "dict"
          /\ shape' = [t |-> "dict", segments |-> List([Segs EXCEPT ![i].start = bad])]
    /\ damaged' = damaged + 1
    /\ UNCHANGED <<pcPath, d>>
    /\ UNCHANGED notPathVars

\* a coordinate of the start of segment i becomes missing, None or a string
DamageStartCoord ==
    /\ pcPath = "input"
    /\ damaged < MaxDamage
    /\ \E i \in 1..Len(Segs), key \in {"x", "y"}, bad \in BadCoords :
          /\ Segs[i].start.t = "dict"
          /\ Segs[i].start[key].t = "num"
          /\ shape' = [t |-> "dict", segments |-> List([Segs EXCEPT ![i].start[key] = bad])]
    /\ damaged' = damaged + 1
    /\ UNCHANGED <<pcPath, d>>
    /\ UNCHANGED notPathVars

\* a coordinate of a control point of segment i becomes missing, None or a
\* string
DamageControlCoord ==
    /\ pcPath = "input"
    /\ damaged < MaxDamage
    /\ \E i \in 1..Len(Segs), key \in {"x", "y"}, bad \in BadCoords :
          /\ Segs[i].bezierControlPoints.t = "list"
          /\ \E k \in 1..Len(Segs[i].bezierControlPoints.v) :
                /\ Segs[i].bezierControlPoints.v[k][key].t = "num"
                /\ shape' = [t |-> "dict", segments |-> List(
                      [Segs EXCEPT ![i].bezierControlPoints.v[k][key] = bad])]
    /\ damaged' = damaged + 1
    /\ UNCHANGED <<pcPath, d>>
    /\ UNCHANGED notPathVars

\* the shape has no segments entry, or a None one
DropSegments ==
    /\ pcPath = "input"
    /\ damaged < MaxDamage
    /\ \E bad \in {Absent, None} : shape' = [t |-> "dict", segments |-> bad]
    /\ damaged' = MaxDamage
    /\ UNCHANGED <<pcPath, d>>
    /\ UNCHANGED notPathVars

CallShapeToPath ==
    /\ pcPath = "input"
    /\ d' = ShapeToPath(shape)
    /\ pcPath' = "done"
    /\ UNCHANGED <<shape, damaged>>
    /\ UNCHANGED notPathVars

NextPath ==
    \/ AddSegment
    \/ DamageStart
    \/ DamageStartCoord
    \/ DamageControlCoord
    \/ DropSegments
    \/ CallShapeToPath

SpecPath == InitPath /\ [][NextPath]_vars

----------------------------------------------------------------------------
(* Properties of _shape_to_path. *)

IsNum(c) == c.t = "num"

\* the control points a draw command reads: the first two at most
NeededCps(seg) ==
    LET cps == ControlPoints(seg)
    IN  IF Len(cps) >= 2 THEN <<cps[1], cps[2]>> ELSE cps

HasSegments(sh) == sh.segments.t = "list" /\ sh.segments.v # <<>>

\* a coordinate the path needs is missing, None or not a number
HasBadCoordinate(sh) ==
    /\ HasSegments(sh)
    /\ \E i \in 1..Len(sh.segments.v) :
          LET seg == sh.segments.v[i]
          IN  \/ /\ seg.start.t = "dict"
                 /\ ~IsNum(seg.start.x) \/ ~IsNum(seg.start.y)
              \/ \E k \in 1..Len(NeededCps(seg)) :
                    \/ ~IsNum(NeededCps(seg)[k].x)
                    \/ ~IsNum(NeededCps(seg)[k].y)

\* C6: _shape_to_path returns the empty path and does not raise when the
\* shape has no segments or a coordinate it needs is missing, None or
\* non-numeric.
C6_EmptyNeverRaises ==
    (pcPath = "done" /\ (~HasSegments(shape) \/ HasBadCoordinate(shape)))
        => d = Ok(<<>>)

\* every segment has a start with two numbers and at most two control points,
\* each with two numbers
WellFormed(sh) ==
    /\ HasSegments(sh)
    /\ \A i \in 1..Len(sh.segments.v) :
          LET seg == sh.segments.v[i]
          IN  /\ seg.start.t = "dict"
              /\ IsNum(seg.start.x) /\ IsNum(seg.start.y)
              /\ Len(ControlPoints(seg)) <= 2
              /\ \A k \in 1..Len(ControlPoints(seg)) :
                    /\ IsNum(ControlPoints(seg)[k].x)
                    /\ IsNum(ControlPoints(seg)[k].y)

\* the command letter for a number of control points
OpFor(n) == CASE n = 2 -> "C" [] n = 1 -> "Q" [] OTHER -> "L"

\* the last two numbers of a command
EndOfCommand(c) == <<c.args[Len(c.args) - 1], c.args[Len(c.args)]>>

Printed(pt) == <<Round2(pt.x.v), Round2(pt.y.v)>>

\* C7: for a well-formed shape of N >= 1 segments the path is one move-to to
\* segment 0's start, N draw commands and one close; draw command i is a cubic,
\* a quadratic or a line for 2, 1 or 0 control points and ends at the start of
\* the next segment, the last one at the start of segment 0.
C7_PathStructure ==
    (pcPath = "done" /\ WellFormed(shape)) =>
        LET segs == shape.segments.v
            N == Len(segs)
        IN  /\ d.ok
            /\ Len(d.v) = N + 2
            /\ d.v[1] = [op |-> "M", args |-> Printed(segs[1].start)]
            /\ d.v[N + 2] = [op |-> "Z", args |-> <<>>]
            /\ \A i \in 1..N :
                  LET c == d.v[i + 1]
                      n == Len(ControlPoints(segs[i]))
                      nxt == IF i < N THEN i + 1 ELSE 1
                  IN  /\ c.op = OpFor(n)
                      /\ Len(c.args) = 2 * (n + 1)
                      /\ EndOfCommand(c) = Printed(segs[nxt].start)
                      /\ \A k \in 1..n :
                            <<c.args[2 * k - 1], c.args[2 * k]>>
                                = Printed(ControlPoints(segs[i])[k])

\* C7 witness: a well-formed shape of three segments with 2, 1 and 0 control
\* points and distinct consecutive starts was converted to a path of five
\* commands.
C7_Witness ==
    /\ pcPath = "done"
    /\ WellFormed(shape)
    /\ Len(shape.segments.v) = 3
    /\ Len(ControlPoints(shape.segments.v[1])) = 2
    /\ Len(ControlPoints(shape.segments.v[2])) = 1
    /\ Len(ControlPoints(shape.segments.v[3])) = 0
    /\ shape.segments.v[3].start # shape.segments.v[1].start
    /\ d.ok /\ Len(d.v) = 5

----------------------------------------------------------------------------
(* Element renderers.                                                      *)
(*                                                                         *)
(* A fragment is a record of what the markup holds: the element, its class *)
(* and data attributes, and its parts in order.  Blank is the empty string *)
(* a renderer returns for an element it skips.                             *)

Blank == [el |-> ""]

Max(a, b) == IF a >= b THEN a ELSE b
Min(a, b) == IF a <= b THEN a ELSE b

\* .1f of a number in thousandths, in tenths
Round1(n) == (n + 50) \div 100
\* .0f of a number in thousandths, in units
Round0(n) == (n + 500) \div 1000

\* lines 78-80: html.escape(str(text)); the strings of the model hold none of
\* the characters & < > " ' that html.escape rewrites
Esc(v) ==
    CASE v.t = "str" -> v.v
      [] v.t = "None" -> "None"
      [] v.t = "num" -> ToString(v.v)
      [] OTHER -> ""

\* d.get(k, default)
GetOr(v, default) == IF v = Absent THEN default ELSE v

EmptyShape == [t |-> "dict", segments |-> Absent]

RECURSIVE SumSeq(_)
SumSeq(q) == IF q = <<>> THEN 0 ELSE Head(q) + SumSeq(Tail(q))

RECURSIVE MaxSeq(_)
MaxSeq(q) == IF Len(q) = 1 THEN q[1] ELSE Max(Head(q), MaxSeq(Tail(q)))

RECURSIVE MinSeq(_)
MinSeq(q) == IF Len(q) = 1 THEN q[1] ELSE Min(Head(q), MinSeq(Tail(q)))

\* seg["start"][key]
StartCoord(seg, key) ==
    Then(Subscript(seg, "start"), LAMBDA st : Subscript(st, key))

\* lines 71-72: [s["start"][key] for s in segments]
RECURSIVE StartCoords(_, _)
StartCoords(segs, key) ==
    IF segs = <<>> THEN Ok(<<>>)
    ELSE ConcatOk(One(StartCoord(Head(segs), key)), StartCoords(Tail(segs), key))

\* sum(xs) of values that may not be numbers: int + None and int + str are
\* TypeErrors
SumValues(cs) ==
    IF \E i \in 1..Len(cs) : cs[i].t # "num" THEN Raise("TypeError")
    ELSE Ok(SumSeq([i \in 1..Len(cs) |-> cs[i].v]))

\* line 75: (sum(xs) / len(xs), sum(ys) / len(ys)), outside the try
Mean(xs, ys) ==
    Then(SumValues(xs), LAMBDA sx :
        Then(SumValues(ys), LAMBDA sy :
            Ok(<<sx \div Len(xs), sy \div Len(ys)>>)))

\* lines 70-75: the except returns the origin
MeanOrOrigin(xs, ys) ==
    IF xs.ok /\ ys.ok THEN Mean(xs.v, ys.v)
    ELSE IF ~xs.ok THEN Catch(xs, {"KeyError", "TypeError"}, <<0, 0>>)
    ELSE Catch(ys, {"KeyError", "TypeError"}, <<0, 0>>)

\* lines 65-75: _shape_centroid, a pair of numbers in thousandths
ShapeCentroid(sh) ==
    LET segments == IF sh.segments = Absent THEN List(<<>>) ELSE sh.segments
    IN  IF ~Truthy(segments) THEN Ok(<<0, 0>>)
        ELSE MeanOrOrigin(StartCoords(segments.v, "x"), StartCoords(segments.v, "y"))

\* lines 302-304 and 489-491: min(max(xs) - min(xs), max(ys) - min(ys)) over
\* the segment starts of a shape whose path was built, so every start holds
\* two numbers
Extent(segs) ==
    LET xs == [i \in 1..Len(segs) |-> segs[i].start.x.v]
        ys == [i \in 1..Len(segs) |-> segs[i].start.y.v]
    IN  Min(MaxSeq(xs) - MinSeq(xs), MaxSeq(ys) - MinSeq(ys))

\* lines 95-122: _landmark_badge_svg; cx, cy, radius in thousandths, printed
\* with .1f
LandmarkBadgeSvg(icon_name, cx, cy, radius) ==
    LET known == icon_name \in {StrV("house"), StrV("tree")}
        badge_color == IF icon_name = StrV("house") THEN "#44739e" ELSE "#4a7c3f"
        icon_path == IF icon_name = StrV("house") THEN "MDI_HOME" ELSE "MDI_TREE"
        \* scale = radius * 1.2 / 24, tx = cx - 12 * scale
        tx == cx - (radius * 6) \div 10
        ty == cy - (radius * 6) \div 10
    IN  IF ~known THEN Blank
        ELSE [el |-> "badge", fill |-> badge_color, icon |-> icon_path,
              cx |-> Round1(cx), cy |-> Round1(cy), r |-> Round1(radius),
              tx |-> Round1(tx), ty |-> Round1(ty)]

\* the clamp without its upper end: max(3, stroke_w)
EffectiveStrokeWidthUncapped(stroke_w) ==
    IF stroke_w.t # "num" THEN Raise("TypeError")
    ELSE Ok(Max(3000, stroke_w.v))

\* lines 262-273: max(3, min(stroke_w, 60)); comparing None or a str with an
\* int is a TypeError
EffectiveStrokeWidth(stroke_w) ==
    IF stroke_w.t # "num" THEN Raise("TypeError")
    ELSE Ok(Max(3000, Min(stroke_w.v, 60000)))

\* line 305: max(30, min(80, extent * 0.15))
BadgeRadius(sh) == Max(30000, Min(80000, (Extent(sh.segments.v) * 15) \div 100))

\* lines 298-308: what the icon adds to the landmark's parts
LandmarkBadge(icon_name, sh) ==
    IF ~Truthy(icon_name) THEN Ok(<<>>)
    ELSE Then(ShapeCentroid(sh), LAMBDA c :
            Ok(<<LandmarkBadgeSvg(icon_name, c[1], c[2], BadgeRadius(sh))>>))

\* the filled outline drawn whatever the icon
LandmarkOutlineAlways(lm, path, w) ==
    <<[el |-> "path", d |-> path,
       fill |-> Esc(GetOr(lm.fillColor, StrV("#cccccc"))),
       stroke |-> Esc(GetOr(lm.strokeColor, StrV("#999999"))),
       strokeWidth |-> w]>>

\* lines 289-296: the filled outline, unless the icon is a house
LandmarkOutline(lm, path, w) ==
    IF Get(lm.iconName) = StrV("house") THEN <<>>
    ELSE <<[el |-> "path", d |-> path,
            fill |-> Esc(GetOr(lm.fillColor, StrV("#cccccc"))),
            stroke |-> Esc(GetOr(lm.strokeColor, StrV("#999999"))),
            strokeWidth |-> w]>>

\* lines 278-285: the tooltip attributes need an icon and a name
LandmarkGroup(lm, parts) ==
    [el |-> "g", class |-> "landmark",
     name |-> Esc(GetOr(lm.name, StrV(""))),
     tooltip |-> Truthy(Get(lm.iconName)) /\ Truthy(GetOr(lm.name, StrV(""))),
     parts |-> parts]

\* lines 262-311: a landmark whose path is not empty
LandmarkWithPath(lm, path) ==
    Then(EffectiveStrokeWidth(GetOr(lm.strokeWidth, Num(1000))), LAMBDA w :
        Then(LandmarkBadge(Get(lm.iconName), GetOr(lm.shape, EmptyShape)),
             LAMBDA badge :
                Ok(LandmarkGroup(lm, LandmarkOutline(lm, path, w) \o badge))))

\* lines 255-311: _render_landmark
RenderLandmark(lm) ==
    Then(ShapeToPath(GetOr(lm.shape, EmptyShape)), LAMBDA path :
        IF path = <<>> THEN Ok(Blank) ELSE LandmarkWithPath(lm, path))

\* lines 322-330: the text at the first segment's start; nothing catches what
\* the subscripts and the .1f format raise
TextAt(txt, seg) ==
    Then(StartCoord(seg, "x"), LAMBDA x :
        Then(StartCoord(seg, "y"), LAMBDA y :
            Then(Format1(x), LAMBDA fx :
                Then(Format1(y), LAMBDA fy :
                    Ok([el |-> "text", class |-> "text-label",
                        text |-> Esc(GetOr(txt.text, StrV(""))),
                        x |-> fx, y |-> fy,
                        fontSize |-> GetOr(txt.fontSize, Num(14000))])))))

\* lines 314-330: _render_text
RenderText(txt) ==
    LET sh == GetOr(txt.shape, EmptyShape)
        segments == IF sh.segments = Absent THEN List(<<>>) ELSE sh.segments
    IN  IF sh.t = "None" THEN Raise("AttributeError")
        ELSE IF ~Truthy(segments) THEN Ok(Blank)
        ELSE TextAt(txt, segments.v[1])

\* lines 366-370: _crop_initial; name[0].upper() for the crop names of the
\* model
FirstUpper(name) ==
    CASE name = "kale" -> "K"
      [] name = "Beet - 1 - Red" -> "B"
      [] OTHER -> "?"

CropInitial(gc) ==
    LET name == IF Truthy(Get(gc.cropName)) THEN gc.cropName
                ELSE IF Truthy(Get(gc.title)) THEN gc.title
                ELSE StrV("")
    IN  IF name.v = "" THEN "" ELSE FirstUpper(name.v)

\* the largest r in lo..hi with r * r <= n
RECURSIVE ISqrtIn(_, _, _)
ISqrtIn(n, lo, hi) ==
    IF lo >= hi THEN lo
    ELSE LET mid == (lo + hi + 1) \div 2
         IN  IF mid * mid <= n THEN ISqrtIn(n, mid, hi) ELSE ISqrtIn(n, lo, mid - 1)

Abs(a) == IF a < 0 THEN -a ELSE a

\* line 391: math.sqrt(dx * dx + dy * dy), in thousandths; exact for a row
\* along an axis, rounded down otherwise
RowLength(dx, dy) ==
    IF dy = 0 THEN Abs(dx)
    ELSE IF dx = 0 THEN Abs(dy)
    ELSE ISqrtIn(dx * dx + dy * dy, 0, Abs(dx) + Abs(dy))

\* lines 398-403: the plants of one row, i = 0..n_plants - 1; ux and uy are
\* the unit direction in thousandths
RowPlants(sx, sy, ux, uy, plant_spacing, n_plants) ==
    [n \in 1..n_plants |->
        <<sx + ((n - 1) * plant_spacing * ux) \div 1000,
          sy + ((n - 1) * plant_spacing * uy) \div 1000>>]

\* the count without the plant at the row's start
NPlantsWithoutFirst(row_len, plant_spacing) == row_len \div plant_spacing

\* the count with the quotient rounded up
NPlantsRoundedUp(row_len, plant_spacing) ==
    ((row_len + plant_spacing - 1) \div plant_spacing) + 1

\* line 399: int(row_len / plant_spacing) + 1
NPlants(row_len, plant_spacing) == (row_len \div plant_spacing) + 1

\* the single-plant test with plant_spacing <= 0 in place of plant_spacing < 1
IsDegenerateAtZero(row_len, plant_spacing) == row_len < 1000 \/ plant_spacing <= 0

\* line 393: row_len < 1 or plant_spacing < 1
IsDegenerate(row_len, plant_spacing) == row_len < 1000 \/ plant_spacing < 1000

\* lines 390-403: the plants of a row from (sx, sy) to (ex, ey)
PlantsAlong(sx, sy, ex, ey, plant_spacing) ==
    LET dx == ex - sx
        dy == ey - sy
        row_len == RowLength(dx, dy)
    IN  IF IsDegenerate(row_len, plant_spacing) THEN <<<<sx, sy>>>>
        ELSE RowPlants(sx, sy, (dx * 1000) \div row_len, (dy * 1000) \div row_len,
                       plant_spacing, NPlants(row_len, plant_spacing))

\* lines 384-387: the four subscripts inside the try
RowCoords(row) ==
    ConcatOk(ConcatOk(One(StartCoord(row, "x")), One(StartCoord(row, "y"))),
             ConcatOk(One(Then(Subscript(row, "end"), LAMBDA en : Subscript(en, "x"))),
                      One(Then(Subscript(row, "end"), LAMBDA en : Subscript(en, "y")))))

\* lines 383-403: a row whose subscripts raise is skipped; the arithmetic on
\* what they return is outside the try
RowFromCoords(c, plant_spacing) ==
    IF ~c.ok THEN Ok(<<>>)
    ELSE IF \E i \in 1..4 : c.v[i].t # "num" THEN Raise("TypeError")
    ELSE Ok(PlantsAlong(c.v[1].v, c.v[2].v, c.v[3].v, c.v[4].v, plant_spacing))

\* lines 373-405: _plant_positions_from_rows; plant_spacing is a number in
\* thousandths
RECURSIVE PlantPositionsFromRows(_, _)
PlantPositionsFromRows(rows, plant_spacing) ==
    IF rows = <<>> THEN Ok(<<>>)
    ELSE ConcatOk(RowFromCoords(RowCoords(Head(rows)), plant_spacing),
                  PlantPositionsFromRows(Tail(rows), plant_spacing))

Circles(positions, r, layer) ==
    [i \in 1..Len(positions) |->
        [el |-> "circle", layer |-> layer, cx |-> Round1(positions[i][1]),
         cy |-> Round1(positions[i][2]), r |-> Round1(r)]]

\* the two circles of a plant drawn together, plant after plant
RECURSIVE CirclePairs(_, _)
CirclePairs(positions, plant_spacing) ==
    IF positions = <<>> THEN <<>>
    ELSE Circles(<<Head(positions)>>, plant_spacing \div 2, "outer")
         \o Circles(<<Head(positions)>>, (plant_spacing * 35) \div 100, "inner")
         \o CirclePairs(Tail(positions), plant_spacing)

PlantCirclesPerPlant(positions, plant_spacing) ==
    Ok(CirclePairs(positions, plant_spacing))

\* lines 465-474: every outer circle of the cluster, then every inner one
PlantCircles(positions, plant_spacing) ==
    Ok(Circles(positions, plant_spacing \div 2, "outer")
       \o Circles(positions, (plant_spacing * 35) \div 100, "inner"))

\* lines 477-482: the cluster's own shape, if it has a path
ClusterFill(cd) == Ok(IF cd = <<>> THEN <<>> ELSE <<[el |-> "path", d |-> cd]>>)

\* lines 460-482: what one cluster adds to the formation's parts
ClusterParts(cluster, plant_spacing) ==
    IF Truthy(Get(cluster.rows))
    THEN Then(PlantPositionsFromRows(cluster.rows.v, plant_spacing),
              LAMBDA positions : PlantCircles(positions, plant_spacing))
    ELSE Then(ShapeToPath(GetOr(cluster.shape, EmptyShape)), ClusterFill)

RECURSIVE ClustersParts(_, _)
ClustersParts(clusters, plant_spacing) ==
    IF clusters = <<>> THEN Ok(<<>>)
    ELSE ConcatOk(ClusterParts(Head(clusters), plant_spacing),
                  ClustersParts(Tail(clusters), plant_spacing))

\* a gardenCrop with no entries
EmptyCrop ==
    [t |-> "dict", title |-> Absent, cropName |-> Absent, color |-> Absent,
     seedingDate |-> Absent, harvestingDate |-> Absent,
     groundOccupationStart |-> Absent, groundOccupationEnd |-> Absent]

\* line 492: max(24, min(80, extent * 0.35))
InitialFontSize(sh) == Max(24000, Min(80000, (Extent(sh.segments.v) * 35) \div 100))

\* lines 484-499: the crop initial at the centroid of the formation
InitialLabel(initial, sh) ==
    IF initial = "" THEN Ok(<<>>)
    ELSE Then(ShapeCentroid(sh), LAMBDA c :
            Ok(<<[el |-> "text", class |-> "crop-initial", text |-> initial,
                  x |-> Round1(c[1]), y |-> Round1(c[2]),
                  fontSize |-> Round0(InitialFontSize(sh))]>>))

\* line 426: formation.get("plantSpacing") or 80
PlantSpacing(formation) ==
    IF Truthy(Get(formation.plantSpacing)) THEN formation.plantSpacing
    ELSE Num(80000)

\* lines 428-430: sum(c.get("plantCount", 0) for c in clusters)
PlantCount(clusters) ==
    IF clusters.t = "None" THEN Raise("TypeError")
    ELSE SumValues([i \in 1..Len(clusters.v) |->
                        GetOr(clusters.v[i].plantCount, Num(0))])

\* lines 449-451: plant_spacing / 2.0 on a str is a TypeError
SpacingNumber(plant_spacing) ==
    IF plant_spacing.t # "num" THEN Raise("TypeError") ELSE Ok(plant_spacing.v)

\* lines 437-457: the tooltip group of a formation
FormationGroup(gc, path, plant_count, parts) ==
    [el |-> "g", class |-> "tooltip-target",
     crop |-> Esc(GetOr(gc.title, StrV("Unknown"))),
     seeding |-> Esc(GetOr(gc.seedingDate, StrV(""))),
     harvest |-> Esc(GetOr(gc.harvestingDate, StrV(""))),
     plants |-> plant_count,
     groundStart |-> Esc(GetOr(gc.groundOccupationStart, StrV(""))),
     groundEnd |-> Esc(GetOr(gc.groundOccupationEnd, StrV(""))),
     color |-> IF Truthy(GetOr(gc.color, StrV("#6b8e23")))
               THEN Esc(GetOr(gc.color, StrV("#6b8e23"))) ELSE "",
     parts |-> <<[el |-> "path", d |-> path, hit |-> TRUE]>> \o parts]

\* lines 420-502: a formation whose path is not empty
FormationWithPath(formation, gc, path) ==
    IF gc.t = "None" THEN Raise("AttributeError")
    ELSE Then(PlantCount(GetOr(formation.clusters, List(<<>>))), LAMBDA plant_count :
            Then(SpacingNumber(PlantSpacing(formation)), LAMBDA plant_spacing :
                Then(ClustersParts(GetOr(formation.clusters, List(<<>>)).v, plant_spacing),
                     LAMBDA cparts :
                        Then(InitialLabel(CropInitial(gc), GetOr(formation.shape, EmptyShape)),
                             LAMBDA label :
                                Ok(FormationGroup(gc, path, plant_count,
                                                  cparts \o label))))))

\* lines 408-502: _render_formation
RenderFormation(formation) ==
    Then(ShapeToPath(GetOr(formation.shape, EmptyShape)), LAMBDA path :
        IF path = <<>> THEN Ok(Blank)
        ELSE FormationWithPath(formation, GetOr(formation.gardenCrop, EmptyCrop), path))

\* the filter without the draft test
IsDrawnIgnoringDraft(f) == Truthy(Get(f.gardenCrop))

\* lines 348-351: not f.get("draft") and f.get("gardenCrop")
IsDrawn(f) == ~Truthy(Get(f.draft)) /\ Truthy(Get(f.gardenCrop))

\* lines 359-360: _render_formation on each kept formation, in order
RECURSIVE RenderFormations(_)
RenderFormations(fs) ==
    IF fs = <<>> THEN Ok(<<>>)
    ELSE ConcatOk(One(RenderFormation(Head(fs))), RenderFormations(Tail(fs)))

\* (x.get(key) or {}).get("nodes", [])
Nodes(v) ==
    IF ~Truthy(Get(v)) THEN <<>>
    ELSE IF v.nodes = Absent THEN <<>>
    ELSE v.nodes.v

\* lines 344-363: a location whose path is not empty
LocationWithPath(loc, path) ==
    Then(RenderFormations(SelectSeq(Nodes(loc.plantingFormations), IsDrawn)),
         LAMBDA rendered :
            Ok([el |-> "g", class |-> "planting-location",
                name |-> Esc(GetOr(loc.name, StrV(""))),
                parts |-> <<[el |-> "path", d |-> path,
                             fill |-> Esc(GetOr(loc.fillColor, StrV("#d4e6b5")))]>>
                          \o rendered]))

\* lines 333-363: _render_planting_location
RenderPlantingLocation(loc) ==
    Then(ShapeToPath(GetOr(loc.shape, EmptyShape)), LAMBDA path :
        IF path = <<>> THEN Ok(Blank) ELSE LocationWithPath(loc, path))

----------------------------------------------------------------------------
(* render_garden_svg *)

\* lines 505-515: _empty_svg
EmptySvg(message) ==
    [width |-> 400, height |-> 200,
     parts |-> <<[el |-> "rect", width |-> 400, height |-> 200],
                 [el |-> "text", x |-> 200, y |-> 100, text |-> message]>>]

\* the absent-plan test as "plan is None"
PlanMissingOnlyNone(plan) == plan = None

\* line 207: if not plan
PlanMissing(plan) == ~Truthy(plan)

\* lines 241-244: the fragment of one entry of the render list
RenderItem(e) ==
    IF e.kind = "landmark" THEN RenderLandmark(e.item)
    ELSE RenderPlantingLocation(e.item)

\* lines 240-244: the fragments of the render list, in its order
RECURSIVE RenderItems(_)
RenderItems(es) ==
    IF es = <<>> THEN Ok(<<>>)
    ELSE ConcatOk(One(RenderItem(Head(es))), RenderItems(Tail(es)))

\* lines 247-249: the fragments of the non-hidden texts, in their order
RECURSIVE RenderTexts(_)
RenderTexts(txts) ==
    IF txts = <<>> THEN Ok(<<>>)
    ELSE IF SkipHidden(Head(txts)) THEN RenderTexts(Tail(txts))
    ELSE ConcatOk(One(RenderText(Head(txts))), RenderTexts(Tail(txts)))

\* the texts drawn before the landmarks and locations
ComposeTextsFirst(items, texts) == ConcatOk(RenderTexts(texts), RenderItems(items))

\* lines 239-249: the landmarks and locations in z-order, then the texts
Compose(items, texts) == ConcatOk(RenderItems(items), RenderTexts(texts))

\* line 219: the render list of a plan
RenderListOf(plan) ==
    BuildRenderOrder(Nodes(plan.landmarks), Nodes(plan.plantingLocations),
                     Nodes(plan.groups))

\* lines 210-211 and 222-252: the envelope around the fragments
Document(plan, body) ==
    Ok([width |-> IF Truthy(Get(plan.width)) THEN plan.width ELSE Num(800000),
        height |-> IF Truthy(Get(plan.height)) THEN plan.height ELSE Num(600000),
        parts |-> body])

\* the fragments of the call before this one
PreviousParts ==
    IF calls = <<>> THEN <<>>
    ELSE IF ~calls[Len(calls)].returned.ok THEN <<>>
    ELSE calls[Len(calls)].returned.v.parts

\* render_garden_svg with svg_parts kept from one call to the next
RenderGardenSvgSharedParts(gd) ==
    IF PlanMissing(Get(gd.gardenPlan)) THEN Ok(EmptySvg("No garden plan data"))
    ELSE Then(Compose(RenderListOf(gd.gardenPlan), Nodes(gd.gardenPlan.texts)),
              LAMBDA body : Document(gd.gardenPlan, PreviousParts \o body))

\* lines 206-252
RenderGardenSvg(gd) ==
    IF PlanMissing(Get(gd.gardenPlan)) THEN Ok(EmptySvg("No garden plan data"))
    ELSE Then(Compose(RenderListOf(gd.gardenPlan), Nodes(gd.gardenPlan.texts)),
              LAMBDA body : Document(gd.gardenPlan, body))

----------------------------------------------------------------------------
(* Spec: a garden plan is built one entity at a time, then                 *)
(* render_garden_svg runs once.                                            *)

\* landmarks, locations and texts of a plan, together
MaxElems == 2

\* a triangle
GoodShape ==
    [t |-> "dict", segments |-> List(<<
        [t |-> "dict", start |-> Pt(Num(0), Num(0)), bezierControlPoints |-> Absent],
        [t |-> "dict", start |-> Pt(Num(40000), Num(0)),
         bezierControlPoints |-> List(<<Pt(Num(40000), Num(20000))>>)],
        [t |-> "dict", start |-> Pt(Num(0), Num(30000)), bezierControlPoints |-> None]>>)]

\* the second segment has no start
NoStartShape ==
    [t |-> "dict", segments |-> List(<<
        [t |-> "dict", start |-> Pt(Num(0), Num(0)), bezierControlPoints |-> Absent],
        [t |-> "dict", start |-> Absent, bezierControlPoints |-> Absent]>>)]

\* the first segment's start has no x
NoCoordShape ==
    [t |-> "dict", segments |-> List(<<
        [t |-> "dict", start |-> Pt(Absent, Num(0)), bezierControlPoints |-> Absent]>>)]

\* the first segment's start has a string for y
StrCoordShape ==
    [t |-> "dict", segments |-> List(<<
        [t |-> "dict", start |-> Pt(Num(0), StrV("a")), bezierControlPoints |-> Absent]>>)]

SceneShapes == {GoodShape, NoStartShape, NoCoordShape, StrCoordShape}
SceneIndexVals == {None, Num(1)}
SceneGroupRefs == {None, StrV("g1")}

SceneCrop ==
    [t |-> "dict", title |-> StrV("Beet - 1 - Red"), cropName |-> StrV("kale"),
     color |-> StrV("#aa0000"), seedingDate |-> StrV("2026-04-01"),
     harvestingDate |-> None, groundOccupationStart |-> StrV("2026-04-01"),
     groundOccupationEnd |-> Absent]

\* one cluster with one row from (0, 0) to (3, 0)
SceneCluster ==
    [t |-> "dict", plantCount |-> Num(2000), shape |-> Absent,
     rows |-> List(<<[t |-> "dict", start |-> Pt(Num(0), Num(0)),
                      end |-> Pt(Num(3000), Num(0))]>>)]

SceneFormation ==
    [t |-> "dict", draft |-> Bool(FALSE), plantSpacing |-> None, shape |-> GoodShape,
     clusters |-> List(<<SceneCluster>>), gardenCrop |-> SceneCrop]

EmptyPlan ==
    [t |-> "dict", width |-> Absent, height |-> Absent, plantingLocations |-> Absent,
     landmarks |-> Absent, groups |-> Absent, texts |-> Absent]

\* {"nodes": [...]}
Connection(l) == [t |-> "dict", nodes |-> List(l)]

Plan == garden_data.gardenPlan

ElemCount ==
    Len(Nodes(Plan.landmarks)) + Len(Nodes(Plan.plantingLocations))
        + Len(Nodes(Plan.texts))

Init ==
    /\ pcScene = "input"
    /\ garden_data \in {[gardenPlan |-> p] : p \in {Absent, None, EmptyPlan}}
    /\ render_list = <<>>
    /\ svg = Ok(<<>>)
    /\ OrderIdle /\ PathIdle /\ LocIdle /\ RepeatIdle /\ ElementsIdle

SetPlanSize ==
    /\ pcScene = "input"
    /\ Plan.t = "dict"
    /\ Plan.width = Absent
    /\ garden_data' = [gardenPlan |->
          [Plan EXCEPT !.width = None, !.height = Num(500000)]]
    /\ UNCHANGED <<pcScene, render_list, svg>>
    /\ UNCHANGED notSceneVars

AddPlanLandmark ==
    /\ pcScene = "input"
    /\ Plan.t = "dict"
    /\ ElemCount < MaxElems
    /\ \E idx \in SceneIndexVals, gid \in SceneGroupRefs, hid \in BOOLEAN,
          sh \in SceneShapes :
          garden_data' = [gardenPlan |-> [Plan EXCEPT !.landmarks =
              Connection(Append(Nodes(Plan.landmarks),
                  [t |-> "dict",
                   name |-> StrV("lm" \o ToString(Len(Nodes(Plan.landmarks)) + 1)),
                   index |-> idx, groupId |-> gid, hidden |-> hid, shape |-> sh,
                   fillColor |-> Absent, strokeColor |-> Absent,
                   strokeWidth |-> Absent, iconName |-> None]))]]
    /\ UNCHANGED <<pcScene, render_list, svg>>
    /\ UNCHANGED notSceneVars

AddPlanLocation ==
    /\ pcScene = "input"
    /\ Plan.t = "dict"
    /\ ElemCount < MaxElems
    /\ \E idx \in SceneIndexVals, gid \in SceneGroupRefs, hid \in BOOLEAN,
          sh \in SceneShapes :
          garden_data' = [gardenPlan |-> [Plan EXCEPT !.plantingLocations =
              Connection(Append(Nodes(Plan.plantingLocations),
                  [t |-> "dict",
                   name |-> StrV("loc" \o ToString(Len(Nodes(Plan.plantingLocations)) + 1)),
                   index |-> idx, groupId |-> gid, hidden |-> hid, shape |-> sh,
                   fillColor |-> Absent,
                   plantingFormations |-> Connection(<<SceneFormation>>)]))]]
    /\ UNCHANGED <<pcScene, render_list, svg>>
    /\ UNCHANGED notSceneVars

AddPlanText ==
    /\ pcScene = "input"
    /\ Plan.t = "dict"
    /\ ElemCount < MaxElems
    /\ \E hid \in BOOLEAN, sh \in SceneShapes :
          garden_data' = [gardenPlan |-> [Plan EXCEPT !.texts =
              Connection(Append(Nodes(Plan.texts),
                  [t |-> "dict",
                   text |-> StrV("txt" \o ToString(Len(Nodes(Plan.texts)) + 1)),
                   fontSize |-> Absent, hidden |-> hid, shape |-> sh]))]]
    /\ UNCHANGED <<pcScene, render_list, svg>>
    /\ UNCHANGED notSceneVars

\* the plan's one group, g1
AddPlanGroup ==
    /\ pcScene = "input"
    /\ Plan.t = "dict"
    /\ Nodes(Plan.groups) = <<>>
    /\ \E idx \in SceneIndexVals, hid \in BOOLEAN :
          garden_data' = [gardenPlan |-> [Plan EXCEPT !.groups =
              Connection(<<[t |-> "dict", id |-> StrV("g1"), index |-> idx,
                            hidden |-> hid]>>)]]
    /\ UNCHANGED <<pcScene, render_list, svg>>
    /\ UNCHANGED notSceneVars

\* the call with the hidden landmarks removed from the caller's plan
CallRenderGardenSvgInPlace ==
    /\ pcScene = "input"
    /\ render_list' = IF PlanMissing(Get(Plan)) THEN <<>> ELSE RenderListOf(Plan)
    /\ svg' = RenderGardenSvg(garden_data)
    /\ pcScene' = "done"
    /\ garden_data' =
          IF PlanMissing(Get(Plan)) THEN garden_data
          ELSE [gardenPlan |-> [Plan EXCEPT !.landmarks =
                   Connection(SelectSeq(Nodes(Plan.landmarks), IsShownItem))]]
    /\ UNCHANGED notSceneVars

CallRenderGardenSvg ==
    /\ pcScene = "input"
    /\ render_list' = IF PlanMissing(Get(Plan)) THEN <<>> ELSE RenderListOf(Plan)
    /\ svg' = RenderGardenSvg(garden_data)
    /\ pcScene' = "done"
    /\ UNCHANGED garden_data
    /\ UNCHANGED notSceneVars

Next ==
    \/ SetPlanSize
    \/ AddPlanLandmark
    \/ AddPlanLocation
    \/ AddPlanText
    \/ AddPlanGroup
    \/ CallRenderGardenSvg

Spec == Init /\ [][Next]_vars

----------------------------------------------------------------------------
(* Properties of render_garden_svg *)

\* render_garden_svg ran on a plan that is there
Rendered == pcScene = "done" /\ ~PlanMissing(Get(Plan))

LandmarkNodes == Nodes(Plan.landmarks)
LocationNodes == Nodes(Plan.plantingLocations)
TextNodes == Nodes(Plan.texts)
GroupNodes == Nodes(Plan.groups)

\* the fragments of the document, in document order
Fragments == svg.v.parts

IsLandmarkFragment(f) == f.el = "g" /\ f.class = "landmark"
IsLocationFragment(f) == f.el = "g" /\ f.class = "planting-location"
IsTextFragment(f) == f.el = "text" /\ f.class = "text-label"

\* the names that the hidden entities of a collection would be drawn under
HiddenNames(items) ==
    {Esc(items[i].name) : i \in {j \in 1..Len(items) : items[j].hidden}}
HiddenTexts ==
    {Esc(TextNodes[i].text) : i \in {j \in 1..Len(TextNodes) : TextNodes[j].hidden}}

\* the non-hidden group an entry refers to, if there is one
ShownGroupsOf(e) ==
    {i \in 1..Len(GroupNodes) :
        /\ ~GroupNodes[i].hidden
        /\ Truthy(Get(e.item.groupId))
        /\ GroupNodes[i].id = e.item.groupId}

\* the index an entry is placed by: that of its non-hidden group, else its own
PlacedBy(e) ==
    IF ShownGroupsOf(e) = {} THEN IndexOrZero(e.item)
    ELSE IndexOrZero(GroupNodes[CHOOSE i \in ShownGroupsOf(e) : TRUE])

\* C3: no hidden entity appears in the output of render_garden_svg: the render
\* list holds no hidden landmark or location, the document holds no fragment of
\* a hidden landmark, location or text, and a hidden group makes no unit: an
\* entry that names a hidden group is placed by its own index.
C3_HiddenAbsent ==
    Rendered =>
        /\ \A i \in 1..Len(render_list) : ~render_list[i].item.hidden
        /\ svg.ok =>
             \A k \in 1..Len(Fragments) :
                /\ IsLandmarkFragment(Fragments[k]) =>
                      Fragments[k].name \notin HiddenNames(LandmarkNodes)
                /\ IsLocationFragment(Fragments[k]) =>
                      Fragments[k].name \notin HiddenNames(LocationNodes)
                /\ IsTextFragment(Fragments[k]) =>
                      Fragments[k].text \notin HiddenTexts
        /\ \A i, j \in 1..Len(render_list) :
              i < j => PlacedBy(render_list[i]) >= PlacedBy(render_list[j])

\* a hidden landmark with a sound shape, a hidden group of index 1, and a drawn
\* location of index 0 that names the hidden group
C3_Witness ==
    /\ Rendered
    /\ svg.ok
    /\ \E i \in 1..Len(LandmarkNodes) :
          LandmarkNodes[i].hidden /\ LandmarkNodes[i].shape = GoodShape
    /\ \E g \in 1..Len(GroupNodes) :
          GroupNodes[g].hidden /\ IndexOrZero(GroupNodes[g]) = 1
    /\ \E i \in 1..Len(render_list) :
          /\ render_list[i].item.groupId = StrV("g1")
          /\ IndexOrZero(render_list[i].item) = 0
    /\ \E k \in 1..Len(Fragments) : IsLocationFragment(Fragments[k])

\* C4: in the document every fragment of a text comes after every fragment of a
\* landmark or planting location, whatever their index and group; the render
\* list, which is what gets sorted, holds landmarks and locations only.
C4_TextsLast ==
    Rendered =>
        /\ \A i \in 1..Len(render_list) :
              \/ /\ render_list[i].kind = "landmark"
                 /\ \E n \in 1..Len(LandmarkNodes) : render_list[i].item = LandmarkNodes[n]
              \/ /\ render_list[i].kind = "location"
                 /\ \E n \in 1..Len(LocationNodes) : render_list[i].item = LocationNodes[n]
        /\ svg.ok =>
             \A i, j \in 1..Len(Fragments) :
                (/\ IsTextFragment(Fragments[i])
                 /\ \/ IsLandmarkFragment(Fragments[j])
                    \/ IsLocationFragment(Fragments[j]))
                => j < i

\* a document with a text fragment and a landmark or location fragment
C4_Witness ==
    /\ Rendered
    /\ svg.ok
    /\ \E i \in 1..Len(Fragments) : IsTextFragment(Fragments[i])
    /\ \E j \in 1..Len(Fragments) :
          IsLandmarkFragment(Fragments[j]) \/ IsLocationFragment(Fragments[j])

\* an entity whose own outline is sound
Sound(item) == item.shape = GoodShape

\* how many landmarks, locations and texts of the plan have a malformed outline
RECURSIVE CountUnsound(_)
CountUnsound(items) ==
    IF items = <<>> THEN 0
    ELSE (IF Sound(Head(items)) THEN 0 ELSE 1) + CountUnsound(Tail(items))

Malformed ==
    CountUnsound(LandmarkNodes) + CountUnsound(LocationNodes) + CountUnsound(TextNodes)

\* every sound non-hidden landmark, location and text has its fragment
AllSoundEmitted ==
    /\ \A n \in 1..Len(LandmarkNodes) :
          (Sound(LandmarkNodes[n]) /\ ~LandmarkNodes[n].hidden) =>
             \E k \in 1..Len(Fragments) :
                IsLandmarkFragment(Fragments[k])
                /\ Fragments[k].name = Esc(LandmarkNodes[n].name)
    /\ \A n \in 1..Len(LocationNodes) :
          (Sound(LocationNodes[n]) /\ ~LocationNodes[n].hidden) =>
             \E k \in 1..Len(Fragments) :
                IsLocationFragment(Fragments[k])
                /\ Fragments[k].name = Esc(LocationNodes[n].name)
    /\ \A n \in 1..Len(TextNodes) :
          (Sound(TextNodes[n]) /\ ~TextNodes[n].hidden) =>
             \E k \in 1..Len(Fragments) :
                IsTextFragment(Fragments[k])
                /\ Fragments[k].text = Esc(TextNodes[n].text)

\* C5: when one element of the plan has malformed geometry (a segment without a
\* start, a missing or non-numeric coordinate), render_garden_svg still returns
\* a document, and the document holds every other sound non-hidden element.
C5_OnlyAffectedOmitted ==
    (Rendered /\ Malformed = 1) => (svg.ok /\ AllSoundEmitted)

\* the plan is empty or absent: no gardenPlan entry, None, or a mapping with no
\* entries
PlanEmptyOrAbsent == Plan \in {Absent, None, EmptyPlan}

\* C8: render_garden_svg on an empty or absent plan returns the fixed 400x200
\* placeholder document and does not raise.
C8_Placeholder ==
    (pcScene = "done" /\ PlanEmptyOrAbsent) =>
        /\ svg.ok
        /\ svg.v = EmptySvg("No garden plan data")
        /\ svg.v.width = 400 /\ svg.v.height = 200

\* the placeholder was returned for a mapping with no entries
C8_Witness ==
    /\ pcScene = "done"
    /\ Plan = EmptyPlan
    /\ svg = Ok(EmptySvg("No garden plan data"))

----------------------------------------------------------------------------
(* SpecLoc: a planting location is given formations one at a time, then    *)
(* _render_planting_location runs once.                                    *)

\* formations of the location
MaxFormations == 3

\* the crop of the n-th formation
LocCrop(n) == [SceneCrop EXCEPT !.title = StrV("crop" \o ToString(n))]

LocDrafts == {Absent, None, Bool(FALSE), Bool(TRUE)}
LocCrops(n) == {Absent, None, LocCrop(n)}
LocShapes == {GoodShape, NoStartShape}

Formations == Nodes(location.plantingFormations)

InitLoc ==
    /\ pcLoc = "input"
    /\ location = [t |-> "dict", name |-> StrV("bed"), index |-> None,
                   groupId |-> None, hidden |-> FALSE, shape |-> GoodShape,
                   fillColor |-> Absent, plantingFormations |-> Absent]
    /\ locSvg = Ok(<<>>)
    /\ OrderIdle /\ PathIdle /\ SceneIdle /\ RepeatIdle /\ ElementsIdle

AddFormation ==
    /\ pcLoc = "input"
    /\ Len(Formations) < MaxFormations
    /\ \E draft \in LocDrafts, gc \in LocCrops(Len(Formations) + 1), sh \in LocShapes :
          location' = [location EXCEPT !.plantingFormations =
              Connection(Append(Formations,
                  [SceneFormation EXCEPT !.draft = draft, !.gardenCrop = gc,
                                         !.shape = sh]))]
    /\ UNCHANGED <<pcLoc, locSvg>>
    /\ UNCHANGED notLocVars

\* the location's own outline loses the start of a segment
DamageOutline ==
    /\ pcLoc = "input"
    /\ location.shape = GoodShape
    /\ location' = [location EXCEPT !.shape = NoStartShape]
    /\ UNCHANGED <<pcLoc, locSvg>>
    /\ UNCHANGED notLocVars

CallRenderPlantingLocation ==
    /\ pcLoc = "input"
    /\ locSvg' = RenderPlantingLocation(location)
    /\ pcLoc' = "done"
    /\ UNCHANGED location
    /\ UNCHANGED notLocVars

NextLoc ==
    \/ AddFormation
    \/ DamageOutline
    \/ CallRenderPlantingLocation

SpecLoc == InitLoc /\ [][NextLoc]_vars

\* draft is not true and there is a gardenCrop
Wanted(f) == f.draft # Bool(TRUE) /\ f.gardenCrop.t = "dict"

Kept == SelectSeq(Formations, Wanted)

\* what follows the location's own outline in its fragment
DrawnFormations == Tail(locSvg.v.parts)

IsFormationFragment(f) == f.el = "g" /\ f.class = "tooltip-target"

\* the location was rendered and its own outline gave a path
LocationDrawn == pcLoc = "done" /\ locSvg.ok /\ locSvg.v # Blank

----------------------------------------------------------------------------
(* SpecRepeat: render_garden_svg is called several times in a row, each    *)
(* call on a garden of its own choosing.  Every call starts from fresh     *)
(* locals (lines 206-222).                                                 *)

\* calls in a row
MaxCalls == 3

\* a plan of one landmark and one text
RepeatPlan(sh, hid) ==
    [EmptyPlan EXCEPT
        !.landmarks = Connection(<<
            [t |-> "dict", name |-> StrV("lm1"), index |-> None, groupId |-> None,
             hidden |-> hid, shape |-> sh, fillColor |-> Absent,
             strokeColor |-> Absent, strokeWidth |-> Absent, iconName |-> None]>>),
        !.texts = Connection(<<
            [t |-> "dict", text |-> StrV("txt1"), fontSize |-> Absent,
             hidden |-> FALSE, shape |-> GoodShape]>>)]

RepeatInputs ==
    {[gardenPlan |-> p] :
        p \in {Absent, None, EmptyPlan}
              \cup {RepeatPlan(sh, hid) : sh \in SceneShapes, hid \in BOOLEAN}}

InitRepeat ==
    /\ calls = <<>>
    /\ OrderIdle /\ PathIdle /\ SceneIdle /\ LocIdle /\ ElementsIdle

CallAgain ==
    /\ Len(calls) < MaxCalls
    /\ \E gd \in RepeatInputs :
          /\ garden_data' = gd
          /\ render_list' = IF PlanMissing(Get(gd.gardenPlan)) THEN <<>>
                            ELSE RenderListOf(gd.gardenPlan)
          /\ svg' = RenderGardenSvg(gd)
          /\ calls' = Append(calls, [arg |-> gd, returned |-> RenderGardenSvg(gd)])
    /\ pcScene' = "done"
    /\ UNCHANGED <<orderVars, pathVars, locVars, elementVars, integrationVars>>

NextRepeat == CallAgain

SpecRepeat == InitRepeat /\ [][NextRepeat]_vars

----------------------------------------------------------------------------
(* SpecRows: the rows of a cluster are given one at a time, then           *)
(* _plant_positions_from_rows runs once.                                   *)

\* rows of the cluster
MaxRows == 2

Row(sx, sy, ex, ey) ==
    [t |-> "dict", start |-> Pt(Num(sx), Num(sy)), end |-> Pt(Num(ex), Num(ey))]

\* rows along the axes and along a 3-4-5 diagonal, a row of length 0 and one of
\* length 0.5
SoundRows ==
    {Row(0, 0, 100000, 0), Row(2000, 3000, 7000, 3000), Row(0, 0, 3000, 4000),
     Row(10000, 10000, 10000, 10000), Row(0, 0, 500, 0), Row(4000, 0, 0, 0),
     Row(0, 2000, 0, 12000)}

\* a row without a start, and a row whose end has None for y
UnsoundRows ==
    {[t |-> "dict", start |-> Absent, end |-> Pt(Num(0), Num(0))],
     [t |-> "dict", start |-> Pt(Num(0), Num(0)), end |-> Pt(Num(5000), None)]}

\* plant_spacing: -1, 0, 0.5, 1, 3, 25 and 80
Spacings == {-1000, 0, 500, 1000, 3000, 25000, 80000}

InitRows ==
    /\ pcRows = "input"
    /\ rowsArg = <<>>
    /\ spacingArg \in Spacings
    /\ rowPositions = Ok(<<>>)
    /\ PlannerIdle /\ LandmarkIdle /\ CentroidIdle /\ FormationIdle

AddRow ==
    /\ pcRows = "input"
    /\ Len(rowsArg) < MaxRows
    /\ \E row \in SoundRows \cup UnsoundRows : rowsArg' = Append(rowsArg, row)
    /\ UNCHANGED <<pcRows, spacingArg, rowPositions>>
    /\ UNCHANGED notRowsVars

CallPlantPositionsFromRows ==
    /\ pcRows = "input"
    /\ rowPositions' = PlantPositionsFromRows(rowsArg, spacingArg)
    /\ pcRows' = "done"
    /\ UNCHANGED <<rowsArg, spacingArg>>
    /\ UNCHANGED notRowsVars

NextRows == AddRow \/ CallPlantPositionsFromRows

SpecRows == InitRows /\ [][NextRows]_vars

\* the function returned positions
RowsDone == pcRows = "done" /\ rowPositions.ok

\* a row with a start and an end (lines 384-387 do not raise)
HasEnds(row) == row.start # Absent

DxOf(row) == row.end.x.v - row.start.x.v
DyOf(row) == row.end.y.v - row.start.y.v

\* the length of a row whose ends are whole units apart, in units
LengthOf(row) ==
    LET dxu == Abs(DxOf(row)) \div 1000
        dyu == Abs(DyOf(row)) \div 1000
    IN  CHOOSE l \in 0..(dxu + dyu) : l * l = dxu * dxu + dyu * dyu

\* the row is shorter than 1
ShorterThanOne(row) ==
    /\ Abs(DxOf(row)) < 1000
    /\ Abs(DyOf(row)) < 1000
    /\ DxOf(row) * DxOf(row) + DyOf(row) * DyOf(row) < 1000000

\* L < 1 or plantSpacing < 1
SinglePlant(row) == spacingArg < 1000 \/ ShorterThanOne(row)

\* floor(L / plantSpacing) + 1
PlantsOf(row) ==
    IF ~HasEnds(row) THEN 0
    ELSE IF SinglePlant(row) THEN 1
    ELSE ((LengthOf(row) * 1000) \div spacingArg) + 1

\* how many positions the rows before the r-th one have
RECURSIVE PlantsBefore(_)
PlantsBefore(r) == IF r <= 1 THEN 0 ELSE PlantsBefore(r - 1) + PlantsOf(rowsArg[r - 1])

\* the positions of the r-th row
PositionsOfRow(r) ==
    SubSeq(rowPositions.v, PlantsBefore(r) + 1, PlantsBefore(r) + PlantsOf(rowsArg[r]))

\* the point at distance k * plantSpacing from the start, along the row
PointAt(row, k) ==
    <<row.start.x.v + (k * spacingArg * (DxOf(row) \div 1000)) \div LengthOf(row),
      row.start.y.v + (k * spacingArg * (DyOf(row) \div 1000)) \div LengthOf(row)>>

\* C11: a row shorter than 1, and any row when plantSpacing is below 1, has
\* exactly one plant, at the row's start; the call returns (no division by
\* zero) on every list of sound rows.
C11_DegenerateRow ==
    /\ (pcRows = "done" /\ \A r \in 1..Len(rowsArg) : rowsArg[r] \in SoundRows)
          => rowPositions.ok
    /\ RowsDone =>
          \A r \in 1..Len(rowsArg) :
             (HasEnds(rowsArg[r]) /\ SinglePlant(rowsArg[r])) =>
                /\ PlantsBefore(r) + 1 <= Len(rowPositions.v)
                /\ PositionsOfRow(r) =
                      <<<<rowsArg[r].start.x.v, rowsArg[r].start.y.v>>>>
                /\ Len(rowPositions.v) = PlantsBefore(Len(rowsArg) + 1)

\* a row of length 5 with spacing 80 after a row of length 100, and a row of
\* length 100 with spacing 0.5
C11_Witness ==
    /\ RowsDone
    /\ Len(rowsArg) = 2
    /\ \/ /\ spacingArg = 80000
          /\ rowsArg[1] = Row(0, 0, 100000, 0)
          /\ rowsArg[2] = Row(2000, 3000, 7000, 3000)
          /\ rowPositions.v = <<<<0, 0>>, <<80000, 0>>, <<2000, 3000>>>>
       \/ /\ spacingArg = 500
          /\ rowsArg[2] = Row(0, 0, 100000, 0)
          /\ Len(rowPositions.v) = 2

\* C12: a row with L >= 1 and plantSpacing >= 1 has floor(L / plantSpacing) + 1
\* plants, the k-th (from 0) at distance k * plantSpacing from the start along
\* the row; the positions of the rows follow each other in row order.
C12_EvenSpacing ==
    RowsDone =>
        /\ Len(rowPositions.v) = PlantsBefore(Len(rowsArg) + 1)
        /\ \A r \in 1..Len(rowsArg) :
              (HasEnds(rowsArg[r]) /\ ~SinglePlant(rowsArg[r])) =>
                 /\ Len(PositionsOfRow(r)) = ((LengthOf(rowsArg[r]) * 1000) \div spacingArg) + 1
                 /\ \A k \in 0..(Len(PositionsOfRow(r)) - 1) :
                       PositionsOfRow(r)[k + 1] = PointAt(rowsArg[r], k)

\* the row (0,0)-(100,0) with spacing 25 has plants at x = 0, 25, 50, 75, 100,
\* and the plants of the diagonal row before it come first
C12_Witness ==
    /\ RowsDone
    /\ spacingArg = 25000
    /\ rowsArg = <<Row(0, 0, 3000, 4000), Row(0, 0, 100000, 0)>>
    /\ rowPositions.v = <<<<0, 0>>, <<0, 0>>, <<25000, 0>>, <<50000, 0>>,
                          <<75000, 0>>, <<100000, 0>>>>

----------------------------------------------------------------------------
(* SpecLandmark: the fields of a landmark are set, then _render_landmark   *)
(* runs once.                                                              *)

\* strokeWidth: missing, None, 0, 1, 3, 4.5, 60, 61, 1000, and a string
StrokeWidths ==
    {Absent, None, Num(0), Num(1000), Num(3000), Num(4500), Num(60000),
     Num(61000), Num(1000000), StrV("2")}

\* iconName: missing, None, the two icons of the table, another name, ""
IconNames == {Absent, None, StrV("house"), StrV("tree"), StrV("rock"), StrV("")}

InitLandmark ==
    /\ pcLm = "input"
    /\ landmarkArg = [t |-> "dict", name |-> StrV("lm1"), index |-> None,
                      groupId |-> None, hidden |-> FALSE, shape |-> GoodShape,
                      fillColor |-> Absent, strokeColor |-> Absent,
                      strokeWidth |-> Absent, iconName |-> Absent]
    /\ lmSvg = Ok(<<>>)
    /\ PlannerIdle /\ RowsIdle /\ CentroidIdle /\ FormationIdle

SetStrokeWidth ==
    /\ pcLm = "input"
    /\ landmarkArg.strokeWidth = Absent
    /\ \E w \in StrokeWidths \ {Absent} :
          landmarkArg' = [landmarkArg EXCEPT !.strokeWidth = w]
    /\ UNCHANGED <<pcLm, lmSvg>>
    /\ UNCHANGED notLandmarkVars

SetIconName ==
    /\ pcLm = "input"
    /\ landmarkArg.iconName = Absent
    /\ \E icon \in IconNames \ {Absent} :
          landmarkArg' = [landmarkArg EXCEPT !.iconName = icon]
    /\ UNCHANGED <<pcLm, lmSvg>>
    /\ UNCHANGED notLandmarkVars

\* the outline becomes another of the shapes, and the landmark may lose its name
SetLandmarkShape ==
    /\ pcLm = "input"
    /\ landmarkArg.shape = GoodShape
    /\ landmarkArg.name = StrV("lm1")
    /\ \E sh \in SceneShapes, nm \in {StrV("lm1"), StrV("")} :
          /\ <<sh, nm>> # <<GoodShape, StrV("lm1")>>
          /\ landmarkArg' = [landmarkArg EXCEPT !.shape = sh, !.name = nm]
    /\ UNCHANGED <<pcLm, lmSvg>>
    /\ UNCHANGED notLandmarkVars

CallRenderLandmark ==
    /\ pcLm = "input"
    /\ lmSvg' = RenderLandmark(landmarkArg)
    /\ pcLm' = "done"
    /\ UNCHANGED landmarkArg
    /\ UNCHANGED notLandmarkVars

NextLandmark ==
    \/ SetStrokeWidth
    \/ SetIconName
    \/ SetLandmarkShape
    \/ CallRenderLandmark

SpecLandmark == InitLandmark /\ [][NextLandmark]_vars

\* _render_landmark returned a fragment that is not empty
LandmarkDrawn == pcLm = "done" /\ lmSvg.ok /\ lmSvg.v # Blank

\* the outline paths of the fragment
Outlines == SelectSeq(lmSvg.v.parts, LAMBDA f : f.el = "path")

\* the badges of the fragment
Badges == SelectSeq(lmSvg.v.parts, LAMBDA f : f.el = "badge")

\* what the fragment holds, in order, leaving out empty strings
PartKinds ==
    LET kept == SelectSeq(lmSvg.v.parts, LAMBDA f : f.el # "")
    IN  [i \in 1..Len(kept) |-> kept[i].el]

\* max(3, min(w, 60)), in thousandths
Clamped(w) == IF w < 3000 THEN 3000 ELSE IF w > 60000 THEN 60000 ELSE w

\* C13: the stroke width that _render_landmark emits lies in [3, 60] and is
\* max(3, min(strokeWidth, 60)) for every numeric strokeWidth; a landmark with
\* a sound outline and a numeric strokeWidth is rendered without an exception.
C13_StrokeClamp ==
    /\ (pcLm = "done" /\ landmarkArg.strokeWidth.t = "num"
          /\ landmarkArg.shape = GoodShape) => LandmarkDrawn
    /\ LandmarkDrawn =>
          \A i \in 1..Len(Outlines) :
             /\ Outlines[i].strokeWidth >= 3000
             /\ Outlines[i].strokeWidth <= 60000
             /\ landmarkArg.strokeWidth.t = "num" =>
                   Outlines[i].strokeWidth = Clamped(landmarkArg.strokeWidth.v)

\* strokeWidth 1000 drawn as 60
C13_Witness ==
    /\ LandmarkDrawn
    /\ landmarkArg.strokeWidth = Num(1000000)
    /\ Len(Outlines) = 1
    /\ Outlines[1].strokeWidth = 60000

\* C14: a landmark whose strokeWidth is missing (no key, or None) is drawn with
\* the default stroke width, 1, clamped to 3, and no exception is raised.
C14_MissingStrokeWidth ==
    (pcLm = "done" /\ landmarkArg.strokeWidth \in {Absent, None}
        /\ landmarkArg.shape = GoodShape /\ landmarkArg.iconName = Absent)
    => /\ lmSvg.ok
       /\ Len(Outlines) = 1
       /\ Outlines[1].strokeWidth = 3000

\* C15: the icon table of _render_landmark: "house" gives a badge and no
\* outline, "tree" gives the outline and then a badge, any other or missing
\* iconName gives the outline alone.
C15_IconTable ==
    LandmarkDrawn =>
        CASE landmarkArg.iconName = StrV("house") ->
                /\ PartKinds = <<"badge">>
                /\ Badges[1].icon = "MDI_HOME"
          [] landmarkArg.iconName = StrV("tree") ->
                /\ PartKinds = <<"path", "badge">>
                /\ Badges[1].icon = "MDI_TREE"
          [] OTHER -> PartKinds = <<"path">>

\* a house, drawn as a badge alone
C15_Witness ==
    /\ LandmarkDrawn
    /\ landmarkArg.iconName = StrV("house")
    /\ Len(Badges) = 1
    /\ Len(Outlines) = 0

----------------------------------------------------------------------------
(* SpecCentroid: a shape is given segments one at a time, then             *)
(* _shape_centroid runs once.                                              *)

\* segments of the shape
MaxStarts == 4

\* segments whose start is a corner of the square (0,0)-(10,10)
CornerSegments ==
    {[t |-> "dict", start |-> Pt(Num(x), Num(y)), bezierControlPoints |-> Absent] :
        x \in {0, 10000}, y \in {0, 10000}}

\* a segment without a start, with None for a start, with a start that has no
\* x, has None for x, or has a string for y
BrokenSegments ==
    {[t |-> "dict", start |-> st, bezierControlPoints |-> Absent] :
        st \in {Absent, None, Pt(Absent, Num(0)), Pt(None, Num(0)),
                Pt(Num(0), StrV("a"))}}

Starts == IF centroidArg.segments.t = "list" THEN centroidArg.segments.v ELSE <<>>

InitCentroid ==
    /\ pcCentroid = "input"
    /\ centroidArg \in {[t |-> "dict", segments |-> sg] : sg \in {Absent, None, List(<<>>)}}
    /\ centroid = Ok(<<0, 0>>)
    /\ PlannerIdle /\ RowsIdle /\ LandmarkIdle /\ FormationIdle

AddStart ==
    /\ pcCentroid = "input"
    /\ centroidArg.segments # None
    /\ Len(Starts) < MaxStarts
    /\ \E seg \in CornerSegments \cup BrokenSegments :
          centroidArg' = [centroidArg EXCEPT !.segments = List(Append(Starts, seg))]
    /\ UNCHANGED <<pcCentroid, centroid>>
    /\ UNCHANGED notCentroidVars

CallShapeCentroid ==
    /\ pcCentroid = "input"
    /\ centroid' = ShapeCentroid(centroidArg)
    /\ pcCentroid' = "done"
    /\ UNCHANGED centroidArg
    /\ UNCHANGED notCentroidVars

NextCentroid == AddStart \/ CallShapeCentroid

SpecCentroid == InitCentroid /\ [][NextCentroid]_vars

\* every segment has a start with two numbers
AllCorners == \A i \in 1..Len(Starts) : Starts[i] \in CornerSegments

\* the sum of one coordinate over the starts 1..n of a shape of corners
RECURSIVE CoordSum(_, _)
CoordSum(key, n) ==
    IF n = 0 THEN 0 ELSE CoordSum(key, n - 1) + Starts[n].start[key].v

\* m is the mean of the coordinate, to the thousandth
IsMean(m, key) ==
    /\ m * Len(Starts) <= CoordSum(key, Len(Starts))
    /\ CoordSum(key, Len(Starts)) < (m + 1) * Len(Starts)

\* C16: _shape_centroid returns the mean of the x and of the y of all segment
\* starts, and returns (0, 0), raising nothing, for a shape without segments
\* and for a malformed one (a segment with no start, a missing or None
\* coordinate).
C16_CentroidOrOrigin ==
    pcCentroid = "done" =>
        /\ centroid.ok
        /\ IF Starts # <<>> /\ AllCorners
           THEN IsMean(centroid.v[1], "x") /\ IsMean(centroid.v[2], "y")
           ELSE centroid.v = <<0, 0>>

----------------------------------------------------------------------------
(* The frame of render_garden_svg *)

----------------------------------------------------------------------------
(* SpecFormation: a formation is given clusters one at a time, then        *)
(* _render_formation runs once.                                            *)

\* clusters of the formation
MaxClusters == 2

\* clusters with rows: one row of length 100; a row of length 50 and a row of
\* length 0
RowClusters ==
    {[t |-> "dict", plantCount |-> Num(3000), shape |-> Absent,
      rows |-> List(<<Row(0, 0, 100000, 0)>>)],
     [t |-> "dict", plantCount |-> Absent, shape |-> GoodShape,
      rows |-> List(<<Row(0, 20000, 50000, 20000), Row(5000, 5000, 5000, 5000)>>)]}

\* clusters without rows: drawn by their shape, or not at all
ShapeClusters ==
    {[t |-> "dict", plantCount |-> Num(1000), shape |-> GoodShape, rows |-> Absent],
     [t |-> "dict", plantCount |-> Num(1000), shape |-> NoStartShape, rows |-> List(<<>>)],
     [t |-> "dict", plantCount |-> Absent, shape |-> Absent, rows |-> None]}

\* plantSpacing: missing, None, 25 and 40
FormationSpacings == {Absent, None, Num(25000), Num(40000)}

Clusters == formationArg.clusters.v

InitFormation ==
    /\ pcFormation = "input"
    /\ \E sp \in FormationSpacings, sh \in {GoodShape, NoStartShape} :
          formationArg = [SceneFormation EXCEPT !.plantSpacing = sp, !.shape = sh,
                                                !.clusters = List(<<>>)]
    /\ formationSvg = Ok(<<>>)
    /\ PlannerIdle /\ RowsIdle /\ LandmarkIdle /\ CentroidIdle

AddCluster ==
    /\ pcFormation = "input"
    /\ Len(Clusters) < MaxClusters
    /\ \E cluster \in RowClusters \cup ShapeClusters :
          formationArg' = [formationArg EXCEPT !.clusters = List(Append(Clusters, cluster))]
    /\ UNCHANGED <<pcFormation, formationSvg>>
    /\ UNCHANGED notFormationVars

CallRenderFormation ==
    /\ pcFormation = "input"
    /\ formationSvg' = RenderFormation(formationArg)
    /\ pcFormation' = "done"
    /\ UNCHANGED formationArg
    /\ UNCHANGED notFormationVars

NextFormation == AddCluster \/ CallRenderFormation

SpecFormation == InitFormation /\ [][NextFormation]_vars

\* _render_formation returned a fragment that is not empty
FormationDrawn == pcFormation = "done" /\ formationSvg.ok /\ formationSvg.v # Blank

\* what follows the hit area in the fragment
AfterHitArea == Tail(formationSvg.v.parts)

\* the spacing the formation is drawn with, in thousandths
SpacingUsed ==
    IF formationArg.plantSpacing.t = "num" THEN formationArg.plantSpacing.v ELSE 80000

HasRows(cluster) == cluster.rows.t = "list" /\ cluster.rows.v # <<>>

\* the plant positions of a cluster with rows
PlantsIn(cluster) == PlantPositionsFromRows(cluster.rows.v, SpacingUsed).v

\* how many parts a cluster adds
PartsOfCluster(cluster) ==
    IF HasRows(cluster) THEN 2 * Len(PlantsIn(cluster))
    ELSE IF cluster.shape = GoodShape THEN 1 ELSE 0

RECURSIVE PartsBefore(_)
PartsBefore(c) ==
    IF c <= 1 THEN 0 ELSE PartsBefore(c - 1) + PartsOfCluster(Clusters[c - 1])

IsCircleAt(f, layer, position) ==
    /\ f.el = "circle"
    /\ f.layer = layer
    /\ f.cx = Round1(position[1])
    /\ f.cy = Round1(position[2])

\* C18: for every cluster with rows, _render_formation emits one outer and one
\* inner circle per plant position, every outer circle of the cluster before
\* any of its inner circles: the cluster's part of the fragment is the outer
\* circles of all its plants, in position order, then the inner circles of all
\* its plants.
C18_OuterThenInner ==
    FormationDrawn =>
        /\ Len(AfterHitArea) >= PartsBefore(Len(Clusters) + 1)
        /\ \A c \in 1..Len(Clusters) :
              HasRows(Clusters[c]) =>
                 \A n \in 1..Len(PlantsIn(Clusters[c])) :
                    /\ IsCircleAt(AfterHitArea[PartsBefore(c) + n], "outer",
                                  PlantsIn(Clusters[c])[n])
                    /\ IsCircleAt(AfterHitArea[PartsBefore(c) + Len(PlantsIn(Clusters[c])) + n],
                                  "inner", PlantsIn(Clusters[c])[n])
        /\ \A k \in 1..Len(AfterHitArea) :
              AfterHitArea[k].el = "circle" =>
                 \E c \in 1..Len(Clusters) :
                    /\ HasRows(Clusters[c])
                    /\ PartsBefore(c) < k
                    /\ k <= PartsBefore(c + 1)

\* two clusters with rows, the first with three plants: three outer circles,
\* then three inner ones, then the circles of the second cluster
C18_Witness ==
    /\ FormationDrawn
    /\ formationArg.plantSpacing = Num(40000)
    /\ Len(Clusters) = 2
    /\ HasRows(Clusters[1]) /\ HasRows(Clusters[2])
    /\ Len(PlantsIn(Clusters[1])) = 3
    /\ AfterHitArea[3].layer = "outer"
    /\ AfterHitArea[4].layer = "inner"
    /\ AfterHitArea[7].layer = "outer"

----------------------------------------------------------------------------
(* Ungrouped items and the order inside a group *)

\* where an item of a collection is in the returned sequence
PlacesOf(kind, item) ==
    {i \in 1..Len(result) : result[i].kind = kind /\ result[i].item = item}

\* the item has no groupId, or its groupId names no group of the plan, or it
\* names hidden groups only
NoGroupId(item) == item.groupId = None
NamesNoGroup(item) ==
    item.groupId # None /\ \A g \in 1..Len(groups) : groups[g].id # item.groupId
NamesHiddenGroup(item) ==
    /\ \E g \in 1..Len(groups) : groups[g].id = item.groupId
    /\ \A g \in 1..Len(groups) : groups[g].id = item.groupId => groups[g].hidden

CountsAsUngrouped(item) == NoGroupId(item) \/ NamesNoGroup(item) \/ NamesHiddenGroup(item)

\* the item is placed once, by its own index (0 when it has none): entries of
\* a higher key come before it and entries of a lower key after it
PlacedByOwnIndex(kind, item) ==
    /\ Cardinality(PlacesOf(kind, item)) = 1
    /\ \A i \in PlacesOf(kind, item), k \in 1..Len(result) :
          /\ UnitKey(result[k]) > (IF item.index = None THEN 0 ELSE item.index.v) => k < i
          /\ UnitKey(result[k]) < (IF item.index = None THEN 0 ELSE item.index.v) => k > i

\* C19: a non-hidden landmark or location whose groupId is absent, names a
\* hidden group, or names no group of the plan is a render unit of its own,
\* keyed by its own index, and by 0 when it has no index.
C19_UngroupedByOwnIndex ==
    pcOrder = "done" =>
        /\ \A n \in 1..Len(landmarks) :
              (~landmarks[n].hidden /\ CountsAsUngrouped(landmarks[n])) =>
                 PlacedByOwnIndex("landmark", landmarks[n])
        /\ \A n \in 1..Len(locations) :
              (~locations[n].hidden /\ CountsAsUngrouped(locations[n])) =>
                 PlacedByOwnIndex("location", locations[n])

\* a landmark without an index that names a hidden group of index 2, emitted
\* after a location of index 1; and a location that names a group the plan
\* does not have
C19_Witness ==
    /\ pcOrder = "done"
    /\ \E n \in 1..Len(landmarks), g \in 1..Len(groups), i, j \in 1..Len(result) :
          /\ ~landmarks[n].hidden /\ landmarks[n].index = None
          /\ groups[g].id = landmarks[n].groupId
          /\ groups[g].hidden /\ groups[g].index = Num(2)
          /\ result[j].item = landmarks[n] /\ result[j].kind = "landmark"
          /\ i < j
          /\ result[i].kind = "location" /\ OwnIndex(result[i]) = 1
          /\ NamesNoGroup(result[i].item)

\* two items of one collection are members of the same non-hidden group
SameGroup(a, b) ==
    /\ ~a.hidden /\ ~b.hidden
    /\ a.groupId = b.groupId
    /\ \E g \in 1..Len(groups) : groups[g].id = a.groupId /\ ~groups[g].hidden

\* C20: inside a group's unit the members keep their collection order: of two
\* landmarks of the group the one earlier in landmarks is emitted first, and
\* of two locations the one earlier in locations, whatever their own indices.
C20_CollectionOrder ==
    pcOrder = "done" =>
        /\ \A a, b \in 1..Len(landmarks) :
              (a < b /\ SameGroup(landmarks[a], landmarks[b])) =>
                 \A i \in PlacesOf("landmark", landmarks[a]),
                    j \in PlacesOf("landmark", landmarks[b]) : i < j
        /\ \A a, b \in 1..Len(locations) :
              (a < b /\ SameGroup(locations[a], locations[b])) =>
                 \A i \in PlacesOf("location", locations[a]),
                    j \in PlacesOf("location", locations[b]) : i < j
        /\ \A n \in 1..Len(landmarks) :
              ~landmarks[n].hidden => PlacesOf("landmark", landmarks[n]) # {}
        /\ \A n \in 1..Len(locations) :
              ~locations[n].hidden => PlacesOf("location", locations[n]) # {}

\* two landmarks of one group, of own index 1 and then 2, emitted in that order
C20_Witness ==
    /\ pcOrder = "done"
    /\ Len(landmarks) >= 2
    /\ SameGroup(landmarks[1], landmarks[2])
    /\ landmarks[1].index = Num(1) /\ landmarks[2].index = Num(2)
    /\ \E i, j \in 1..Len(result) :
          /\ i < j
          /\ result[i].item = landmarks[1]
          /\ result[j].item = landmarks[2]

----------------------------------------------------------------------------
(* The tie-break of the sort *)

\* two items of one collection are both emitted as units of their own and
\* have the same index (no index counts as 0)
TiedUngrouped(a, b) ==
    /\ ~a.hidden /\ ~b.hidden
    /\ CountsAsUngrouped(a) /\ CountsAsUngrouped(b)
    /\ (IF a.index = None THEN 0 ELSE a.index.v) = (IF b.index = None THEN 0 ELSE b.index.v)

\* C21: the tie-break is stable: of two ungrouped landmarks of the same index
\* the one earlier in landmarks is emitted first, and of two ungrouped
\* locations of the same index the one earlier in locations, although the
\* sort is descending.
C21_StableTieBreak ==
    pcOrder = "done" =>
        /\ \A a, b \in 1..Len(landmarks) :
              (a < b /\ TiedUngrouped(landmarks[a], landmarks[b])) =>
                 \A i \in PlacesOf("landmark", landmarks[a]),
                    j \in PlacesOf("landmark", landmarks[b]) : i < j
        /\ \A a, b \in 1..Len(locations) :
              (a < b /\ TiedUngrouped(locations[a], locations[b])) =>
                 \A i \in PlacesOf("location", locations[a]),
                    j \in PlacesOf("location", locations[b]) : i < j

\* two ungrouped landmarks of index 2 emitted in collection order, ahead of a
\* landmark of index 1 that comes before both in the collection
C21_Witness ==
    /\ pcOrder = "done"
    /\ Len(landmarks) = 3 /\ Len(result) = 3
    /\ landmarks[1].index = Num(1) /\ ~landmarks[1].hidden
    /\ TiedUngrouped(landmarks[2], landmarks[3])
    /\ landmarks[2].index = Num(2)
    /\ result[1].item = landmarks[2] /\ result[2].item = landmarks[3]
    /\ result[3].item = landmarks[1]

----------------------------------------------------------------------------
(* The last plant of a row *)

\* L >= 1 and plant_spacing >= 1
NonDegenerate(row, plant_spacing) == plant_spacing >= 1000 /\ ~ShorterThanOne(row)

\* L is not an exact multiple of plant_spacing
NotMultiple(row, plant_spacing) == (LengthOf(row) * 1000) % plant_spacing # 0

\* a point on the row's line lies past the row's end: farther from the start
\* than the end is
PastEnd(row, p) ==
    \/ Abs(p[1] - row.start.x.v) > Abs(DxOf(row))
    \/ Abs(p[2] - row.start.y.v) > Abs(DyOf(row))

\* a point on the row's line lies before the row's end
ShortOfEnd(row, p) ==
    /\ ~PastEnd(row, p)
    /\ p # <<row.end.x.v, row.end.y.v>>

\* the last plant the function returns for the row alone
LastPlantAlone(row, plant_spacing) ==
    LET ps == PlantPositionsFromRows(<<row>>, plant_spacing).v IN ps[Len(ps)]

\* C22 as stated: some non-degenerate row whose length is not an exact multiple
\* of plantSpacing gets a last plant past the row's end point, at a distance
\* from the start greater than L.  The rows and spacings are those a call can
\* be made with; the statement is evaluated once a call has returned.
C22_SomeLastPlantPastEnd ==
    pcRows = "done" =>
        \E row \in SoundRows, plant_spacing \in Spacings :
            /\ NonDegenerate(row, plant_spacing)
            /\ NotMultiple(row, plant_spacing)
            /\ PastEnd(row, LastPlantAlone(row, plant_spacing))

\* C22 amended: no plant of a non-degenerate row lies past the row's end; when
\* L is not an exact multiple of plantSpacing the last plant lies short of the
\* end, at distance floor(L / plantSpacing) * plantSpacing from the start.
C22_LastPlantWithinRow ==
    RowsDone =>
        /\ Len(rowPositions.v) = PlantsBefore(Len(rowsArg) + 1)
        /\ \A r \in 1..Len(rowsArg) :
              (HasEnds(rowsArg[r]) /\ NonDegenerate(rowsArg[r], spacingArg)) =>
                 /\ \A k \in 1..Len(PositionsOfRow(r)) :
                       ~PastEnd(rowsArg[r], PositionsOfRow(r)[k])
                 /\ NotMultiple(rowsArg[r], spacingArg) =>
                       /\ ShortOfEnd(rowsArg[r], PositionsOfRow(r)[Len(PositionsOfRow(r))])
                       /\ PositionsOfRow(r)[Len(PositionsOfRow(r))] =
                             PointAt(rowsArg[r], (LengthOf(rowsArg[r]) * 1000) \div spacingArg)
        /\ (Len(rowsArg) = 1 /\ HasEnds(rowsArg[1]) /\ NonDegenerate(rowsArg[1], spacingArg)) =>
              ~PastEnd(rowsArg[1], rowPositions.v[Len(rowPositions.v)])

\* the diagonal row (0,0)-(3,4) of length 5 with spacing 3 ends with the plant
\* at (1.8, 2.4), and the row (0,0)-(100,0) before it with the plant at x = 99
C22_Witness ==
    /\ RowsDone
    /\ spacingArg = 3000
    /\ rowsArg = <<Row(0, 0, 100000, 0), Row(0, 0, 3000, 4000)>>
    /\ Len(rowPositions.v) = 36
    /\ rowPositions.v[34] = <<99000, 0>>
    /\ rowPositions.v[36] = <<1800, 2400>>

----------------------------------------------------------------------------
(* The returned sequence as a whole *)

\* how many items of a collection are not hidden
RECURSIVE CountShown(_)
CountShown(items) ==
    IF items = <<>> THEN 0
    ELSE (IF Head(items).hidden THEN 0 ELSE 1) + CountShown(Tail(items))

\* the entry is an item of the collection of its kind
IsInputEntry(e) ==
    \/ e.kind = "landmark" /\ \E n \in 1..Len(landmarks) : landmarks[n] = e.item
    \/ e.kind = "location" /\ \E n \in 1..Len(locations) : locations[n] = e.item

\* C25: the returned sequence is a permutation of the non-hidden items: every
\* non-hidden landmark and every non-hidden location occurs in it exactly once
\* under its own kind, a hidden one does not occur, and nothing else occurs.
C25_Permutation ==
    pcOrder = "done" =>
        /\ \A n \in 1..Len(landmarks) :
              /\ Cardinality(PlacesOf("landmark", landmarks[n])) =
                    (IF landmarks[n].hidden THEN 0 ELSE 1)
              /\ PlacesOf("location", landmarks[n]) = {}
        /\ \A n \in 1..Len(locations) :
              /\ Cardinality(PlacesOf("location", locations[n])) =
                    (IF locations[n].hidden THEN 0 ELSE 1)
              /\ PlacesOf("landmark", locations[n]) = {}
        /\ \A i \in 1..Len(result) : IsInputEntry(result[i])
        /\ Len(result) = CountShown(landmarks) + CountShown(locations)

\* a landmark and a location of one group and a hidden landmark: two entries,
\* the location and the landmark of the group
C25_Witness ==
    /\ pcOrder = "done"
    /\ Len(landmarks) = 2 /\ Len(locations) = 1 /\ Len(result) = 2
    /\ \E a, h \in 1..2 :
          /\ SameGroup(landmarks[a], locations[1])
          /\ landmarks[h].hidden
          /\ result[1] = [kind |-> "landmark", item |-> landmarks[a]]
          /\ result[2] = [kind |-> "location", item |-> locations[1]]

----------------------------------------------------------------------------
(* SpecQuery: SeedtimeApiClient.graphql_query.  A call first makes sure the *)
(* client is logged in, then runs its loop; each pass of the loop sends one *)
(* request and handles the answer, a login from inside the loop included.   *)

\* calls of graphql_query on one client
MaxQueries == 2

rendererVars == <<orderVars, pathVars, sceneVars, locVars, repeatVars, elementVars>>
notQueryVars == <<rendererVars, imageVars, entryVars, flowVars>>
notImageVars == <<rendererVars, queryVars, entryVars, flowVars>>
notEntryVars == <<rendererVars, queryVars, imageVars, flowVars>>
notFlowVars == <<rendererVars, queryVars, imageVars, entryVars>>

\* what the sign-in endpoints answer during one authenticate(): the login
\* page (a status, or a network error), whether it carries a CSRF token, the
\* form login (200 with the login page again, 200 with another page, a
\* redirect, another status) and the JSON login
Login(page, token, form, js) == [page |-> page, token |-> token, form |-> form, js |-> js]

LoginScenarios ==
    {Login("200", TRUE, "200", "200"), Login("200", TRUE, "302", "200"),
     Login("200", TRUE, "login_page", "200"), Login("200", TRUE, "500", "201"),
     Login("200", TRUE, "500", "401"), Login("200", TRUE, "500", "500"),
     Login("200", FALSE, "200", "200"), Login("503", TRUE, "200", "200"),
     Login("client_error", TRUE, "200", "200")}

\* lines 237-253: _authenticate_json
AuthenticateJson(sc) ==
    IF sc.js = "401" THEN Raise("SeedtimeAuthError")
    ELSE IF sc.js \notin {"200", "201"} THEN Raise("SeedtimeConnectionError")
    ELSE Ok(TRUE)

\* lines 180-231: authenticate; Ok(TRUE) when it set _authenticated
Authenticate(sc) ==
    IF sc.page = "client_error" THEN Raise("SeedtimeConnectionError")
    ELSE IF sc.page # "200" THEN Raise("SeedtimeConnectionError")
    ELSE IF ~sc.token THEN Raise("SeedtimeConnectionError")
    ELSE IF sc.form = "login_page" THEN Raise("SeedtimeAuthError")
    ELSE IF sc.form \in {"200", "302"} THEN Ok(TRUE)
    ELSE AuthenticateJson(sc)

\* what the GraphQL endpoint answers to one request
Responses ==
    {"data", "errors_and_data", "errors", "bad_json", "401", "422",
     "redirect_sign_in", "redirect_other", "500", "client_error"}

\* lines 320-324: 401, 422, or a redirect to the sign-in page
IsAuthFailure(resp) == resp \in {"401", "422", "redirect_sign_in"}

\* a client that logs in again on every failed attempt
MayRetryAlways(n) == TRUE

\* lines 325, 346: if attempt == 0
MayRetry(n) == n = 0

\* lines 331-341, 343-346: an answer that is neither an auth failure nor a
\* network error
Answer(resp) ==
    IF resp \in {"redirect_other", "500"} THEN Raise("SeedtimeConnectionError")
    ELSE IF resp = "bad_json" THEN Raise("SeedtimeConnectionError")
    ELSE IF resp = "errors" THEN Raise("SeedtimeConnectionError")
    ELSE Ok("data")

InitQuery ==
    /\ QueryIdle
    /\ RendererIdle
    /\ ImageIdle
    /\ EntryIdle
    /\ FlowIdle

\* a call of graphql_query begins
StartQuery ==
    /\ pcQuery \in {"idle", "done"}
    /\ queries < MaxQueries
    /\ queries' = queries + 1
    /\ pcQuery' = "ensure"
    /\ attemptNo' = 0
    /\ responses' = <<>>
    /\ reauths' = 0
    /\ queryResult' = Ok("none")
    /\ UNCHANGED authenticated
    /\ UNCHANGED notQueryVars

\* lines 292-295, 301: await self._ensure_authenticated()
EnsureAuthenticated ==
    /\ pcQuery = "ensure"
    /\ IF authenticated
       THEN pcQuery' = "post" /\ UNCHANGED <<authenticated, queryResult>>
       ELSE \E sc \in LoginScenarios :
               IF Authenticate(sc).ok
               THEN authenticated' = TRUE /\ pcQuery' = "post" /\ UNCHANGED queryResult
               ELSE /\ pcQuery' = "done"
                    /\ queryResult' = Authenticate(sc)
                    /\ UNCHANGED authenticated
    /\ UNCHANGED <<attemptNo, responses, reauths, queries>>
    /\ UNCHANGED notQueryVars

\* lines 307-354: one pass of the loop: the request, its answer, and on an
\* auth failure or a network error of the first attempt the login; line 354
\* is where the loop would end without a return
PostQuery ==
    /\ pcQuery = "post"
    /\ attemptNo < 2
    /\ \E resp \in Responses, sc \in LoginScenarios :
          /\ responses' = Append(responses, resp)
          /\ IF IsAuthFailure(resp) \/ resp = "client_error"
             THEN IF MayRetry(attemptNo)
                  THEN /\ reauths' = reauths + 1
                       /\ authenticated' = Authenticate(sc).ok
                       /\ IF ~Authenticate(sc).ok
                          THEN /\ pcQuery' = "done"
                               /\ queryResult' = Authenticate(sc)
                               /\ UNCHANGED attemptNo
                          ELSE /\ attemptNo' = attemptNo + 1
                               /\ IF attemptNo + 1 < 2
                                  THEN pcQuery' = "post" /\ UNCHANGED queryResult
                                  ELSE /\ pcQuery' = "done"
                                       /\ queryResult' = Raise("SeedtimeConnectionError")
                  ELSE /\ pcQuery' = "done"
                       /\ queryResult' = Raise(IF IsAuthFailure(resp)
                                               THEN "SeedtimeAuthError"
                                               ELSE "SeedtimeConnectionError")
                       /\ UNCHANGED <<authenticated, attemptNo, reauths>>
             ELSE /\ pcQuery' = "done"
                  /\ queryResult' = Answer(resp)
                  /\ UNCHANGED <<authenticated, attemptNo, reauths>>
    /\ UNCHANGED queries
    /\ UNCHANGED notQueryVars

NextQuery == StartQuery \/ EnsureAuthenticated \/ PostQuery

SpecQuery == InitQuery /\ [][NextQuery]_vars

\* C23: within one call graphql_query sends at most two requests and logs in
\* again at most once; an auth failure (401, 422, redirect to sign-in) of the
\* first request makes it log in again and, with the login done, send one
\* more request; an auth failure of the second request raises
\* SeedtimeAuthError, and no third request follows.
C23_RetryOnce ==
    /\ Len(responses) <= 2
    /\ reauths <= 1
    /\ reauths = 1 => Len(responses) >= 1
    /\ (Len(responses) >= 1 /\ IsAuthFailure(responses[1])) =>
          /\ reauths = 1
          /\ \/ pcQuery = "post" /\ attemptNo = 1 /\ Len(responses) = 1 /\ authenticated
             \/ Len(responses) = 2
             \/ pcQuery = "done" /\ ~queryResult.ok /\ ~authenticated
    /\ (Len(responses) = 2 /\ IsAuthFailure(responses[2])) =>
          /\ pcQuery = "done"
          /\ queryResult = Raise("SeedtimeAuthError")
          /\ reauths = 1
    /\ pcQuery = "done" => (Len(responses) = 2 => attemptNo = 1)

\* the second call on a logged-in client got 422 and then, after the login,
\* a redirect to the sign-in page
C23_Witness ==
    /\ queries = 2
    /\ pcQuery = "done"
    /\ responses = <<"422", "redirect_sign_in">>
    /\ reauths = 1
    /\ queryResult = Raise("SeedtimeAuthError")

----------------------------------------------------------------------------
(* SpecImage: SeedtimeGardenImage.async_image.  A call runs on the event    *)
(* loop up to the await of the executor job (lines 76-88); other calls and  *)
(* coordinator updates run while it waits; it then runs from the            *)
(* assignment of svg to its return (lines 88-95) without a break.           *)

\* calls of async_image, and coordinator updates
MaxImageCalls == 2
MaxUpdates == 2

\* the gardens the coordinator can hold: with no plan, with a plan of one
\* landmark and one text, the same with the landmark hidden, and with a plan
\* whose landmark has a string for a coordinate; under two titles
ImagePlans ==
    {Absent, RepeatPlan(GoodShape, FALSE), RepeatPlan(GoodShape, TRUE),
     RepeatPlan(StrCoordShape, FALSE)}

ImageGardens ==
    {[t |-> "dict", title |-> StrV(ti), gardenPlan |-> pl] :
        ti \in {"Home", "Farm"}, pl \in ImagePlans}

CoordinatorData ==
    {None} \cup {[t |-> "dict", garden |-> g] : g \in ImageGardens}

\* lines 84-85: hashlib.md5(str(plan).encode()).hexdigest(); the digest of
\* the plan's text, which holds the plan and nothing else of the garden
PlanHash(plan) == [md5 |-> plan]

\* line 91: svg.encode("utf-8")
Encode(text) == [utf8 |-> text]

\* the test left out: every call renders
NeedsRenderAlways(plan_hash, cached) == TRUE

\* line 87: if plan_hash != self._cached_hash
NeedsRender(plan_hash, cached) == plan_hash # cached

\* a call of async_image that has not run yet
NewCall ==
    [pc |-> "start", garden |-> None, plan_hash |-> None, seenHash |-> None,
     seenSvg |-> None, rendered |-> FALSE, returned |-> Ok(None)]

InitImage ==
    /\ coordinatorData \in CoordinatorData
    /\ cached_svg = None
    /\ cached_hash = None
    /\ imageCalls = <<>>
    /\ updates = 0
    /\ RendererIdle
    /\ QueryIdle
    /\ EntryIdle
    /\ FlowIdle

\* a request for the image arrives
CallAsyncImage ==
    /\ Len(imageCalls) < MaxImageCalls
    /\ imageCalls' = Append(imageCalls, NewCall)
    /\ UNCHANGED <<coordinatorData, cached_svg, cached_hash, updates>>
    /\ UNCHANGED notImageVars

\* async_image with the hash stored before the render is awaited
BeginAsyncImageHashFirst(i) ==
    /\ i \in 1..Len(imageCalls)
    /\ imageCalls[i].pc = "start"
    /\ IF coordinatorData = None \/ PlanMissing(Get(coordinatorData.garden.gardenPlan))
       THEN /\ imageCalls' = [imageCalls EXCEPT ![i].pc = "done"]
            /\ UNCHANGED cached_hash
       ELSE IF NeedsRender(PlanHash(coordinatorData.garden.gardenPlan), cached_hash)
       THEN /\ imageCalls' = [imageCalls EXCEPT
                 ![i].pc = "rendering",
                 ![i].garden = coordinatorData.garden,
                 ![i].plan_hash = PlanHash(coordinatorData.garden.gardenPlan),
                 ![i].seenHash = cached_hash,
                 ![i].seenSvg = cached_svg]
            /\ cached_hash' = PlanHash(coordinatorData.garden.gardenPlan)
       ELSE /\ imageCalls' = [imageCalls EXCEPT
                 ![i].pc = "done",
                 ![i].garden = coordinatorData.garden,
                 ![i].plan_hash = PlanHash(coordinatorData.garden.gardenPlan),
                 ![i].seenHash = cached_hash,
                 ![i].seenSvg = cached_svg,
                 ![i].returned = Ok(cached_svg)]
            /\ UNCHANGED cached_hash
    /\ UNCHANGED <<coordinatorData, cached_svg, updates>>
    /\ UNCHANGED notImageVars

\* lines 76-88 and, when the hashes are equal, 95: up to the await
BeginAsyncImage(i) ==
    /\ i \in 1..Len(imageCalls)
    /\ imageCalls[i].pc = "start"
    /\ IF coordinatorData = None \/ PlanMissing(Get(coordinatorData.garden.gardenPlan))
       THEN imageCalls' = [imageCalls EXCEPT ![i].pc = "done"]
       ELSE IF NeedsRender(PlanHash(coordinatorData.garden.gardenPlan), cached_hash)
       THEN imageCalls' = [imageCalls EXCEPT
               ![i].pc = "rendering",
               ![i].garden = coordinatorData.garden,
               ![i].plan_hash = PlanHash(coordinatorData.garden.gardenPlan),
               ![i].seenHash = cached_hash,
               ![i].seenSvg = cached_svg]
       ELSE imageCalls' = [imageCalls EXCEPT
               ![i].pc = "done",
               ![i].garden = coordinatorData.garden,
               ![i].plan_hash = PlanHash(coordinatorData.garden.gardenPlan),
               ![i].seenHash = cached_hash,
               ![i].seenSvg = cached_svg,
               ![i].returned = Ok(cached_svg)]
    /\ UNCHANGED <<coordinatorData, cached_svg, cached_hash, updates>>
    /\ UNCHANGED notImageVars

\* lines 88-95: the executor job is over; an exception of the renderer leaves
\* the call before anything is stored
FinishRender(i) ==
    /\ i \in 1..Len(imageCalls)
    /\ imageCalls[i].pc = "rendering"
    /\ IF RenderGardenSvg(imageCalls[i].garden).ok
       THEN /\ cached_svg' = Encode(RenderGardenSvg(imageCalls[i].garden).v)
            /\ cached_hash' = imageCalls[i].plan_hash
            /\ imageCalls' = [imageCalls EXCEPT
                  ![i].pc = "done",
                  ![i].rendered = TRUE,
                  ![i].returned = Ok(Encode(RenderGardenSvg(imageCalls[i].garden).v))]
       ELSE /\ imageCalls' = [imageCalls EXCEPT
                  ![i].pc = "done",
                  ![i].rendered = TRUE,
                  ![i].returned = RenderGardenSvg(imageCalls[i].garden)]
            /\ UNCHANGED <<cached_svg, cached_hash>>
    /\ UNCHANGED <<coordinatorData, updates>>
    /\ UNCHANGED notImageVars

\* the coordinator stores the data of a refresh: a new dict, the old one is
\* left as it is
CoordinatorUpdate ==
    /\ updates < MaxUpdates
    /\ updates' = updates + 1
    /\ \E nd \in CoordinatorData \ {None} : coordinatorData' = nd
    /\ UNCHANGED <<cached_svg, cached_hash, imageCalls>>
    /\ UNCHANGED notImageVars

NextImage ==
    \/ CallAsyncImage
    \/ \E i \in 1..MaxImageCalls : BeginAsyncImage(i)
    \/ \E i \in 1..MaxImageCalls : FinishRender(i)
    \/ CoordinatorUpdate

SpecImage == InitImage /\ [][NextImage]_vars

\* the bytes async_image makes of a plan
BytesOf(plan) == Encode(RenderGardenSvg([gardenPlan |-> plan]).v)

\* C24: the renderer is invoked only by a call whose plan hash differs from
\* the cached hash at the time of the call, and a call whose plan hash equals
\* the cached hash returns the cached bytes without rendering.
C24_SkipRedundantRender ==
    \A i \in 1..Len(imageCalls) :
        /\ (imageCalls[i].pc = "rendering" \/ imageCalls[i].rendered) =>
              /\ imageCalls[i].plan_hash # None
              /\ imageCalls[i].plan_hash # imageCalls[i].seenHash
        /\ (imageCalls[i].pc # "start" /\ imageCalls[i].plan_hash # None
                /\ imageCalls[i].plan_hash = imageCalls[i].seenHash) =>
              /\ imageCalls[i].pc = "done"
              /\ ~imageCalls[i].rendered
              /\ imageCalls[i].returned = Ok(imageCalls[i].seenSvg)
              /\ imageCalls[i].seenSvg # None

\* a first call rendered the plan; after a coordinator update that changed
\* the garden's title only, the second call returned the cached bytes
C24_Witness ==
    /\ Len(imageCalls) = 2
    /\ updates >= 1
    /\ imageCalls[1].pc = "done" /\ imageCalls[1].rendered
    /\ imageCalls[2].pc = "done" /\ ~imageCalls[2].rendered
    /\ imageCalls[2].plan_hash = imageCalls[2].seenHash
    /\ imageCalls[2].garden # imageCalls[1].garden
    /\ imageCalls[2].returned = imageCalls[1].returned
    /\ imageCalls[2].returned.ok /\ imageCalls[2].returned.v # None

\* C26: under every interleaving of calls and coordinator updates the cached
\* hash and the cached bytes are a matched pair: both unset, or the bytes are
\* the render of the plan whose hash is cached; and a call that returns bytes
\* returns the render of the plan it read when it started (or of a plan of
\* the same hash).
C26_MatchedPair ==
    /\ (cached_hash = None) <=> (cached_svg = None)
    /\ cached_hash # None =>
          \E plan \in ImagePlans :
              PlanHash(plan) = cached_hash /\ cached_svg = BytesOf(plan)
    /\ \A i \in 1..Len(imageCalls) :
          (imageCalls[i].pc = "done" /\ imageCalls[i].plan_hash # None
                /\ imageCalls[i].returned.ok) =>
             \E plan \in ImagePlans :
                 /\ PlanHash(plan) = imageCalls[i].plan_hash
                 /\ PlanHash(plan) = PlanHash(imageCalls[i].garden.gardenPlan)
                 /\ imageCalls[i].returned.v = BytesOf(plan)

\* two calls read different plans and rendered at the same time (each found
\* the cache empty); the first call's render was stored last, and each call
\* returned its own render
C26_Witness ==
    /\ Len(imageCalls) = 2
    /\ imageCalls[1].pc = "done" /\ imageCalls[2].pc = "done"
    /\ imageCalls[1].rendered /\ imageCalls[2].rendered
    /\ imageCalls[1].seenHash = None /\ imageCalls[2].seenHash = None
    /\ imageCalls[1].plan_hash # imageCalls[2].plan_hash
    /\ imageCalls[1].returned.ok /\ imageCalls[2].returned.ok
    /\ imageCalls[1].returned # imageCalls[2].returned
    /\ cached_hash = imageCalls[1].plan_hash
    /\ cached_svg = imageCalls[1].returned.v

----------------------------------------------------------------------------
(* SpecEntry: the life of a config entry.  hassEntry holds the entry's      *)
(* options, its state in Home Assistant, every aiohttp session a setup has  *)
(* created ("open" or "closed"), the session entry.runtime_data refers to,  *)
(* the platforms the latest setup forwarded, and for every call of          *)
(* async_unload_entry the platforms it unloaded beside those forwarded.     *)

\* calls of async_setup_entry
MaxSetups == 3

\* const.py line 15
DEFAULT_ENABLE_CALENDAR == TRUE

\* the values the options flow stores for enable_calendar; Absent when the
\* stored options have no such key
CalendarOptions == {Bool(TRUE), Bool(FALSE), Absent}

\* lines 78-80 and 92-94: ["image"], and "calendar" when the option is on
PlatformsFor(options) ==
    IF (IF options.enable_calendar = Absent THEN DEFAULT_ENABLE_CALENDAR
        ELSE options.enable_calendar.v)
    THEN <<"image", "calendar">>
    ELSE <<"image">>

\* where a setup can fail
SetupFailures == {"none", "authenticate", "first_refresh", "forward"}

\* lines 36-87: async_setup_entry; fail names the await that raises
AsyncSetupEntry(h, fail) ==
    LET sid == Len(h.sessions) + 1
        opened == [h EXCEPT !.sessions = Append(@, "open"), !.setups = @ + 1]
    IN  IF fail = "authenticate"
        THEN [opened EXCEPT !.sessions[sid] = "closed", !.state = "setup_error"]
        ELSE IF fail = "first_refresh"
        THEN [opened EXCEPT !.state = "setup_error"]
        ELSE IF fail = "forward"
        THEN [opened EXCEPT !.state = "setup_error", !.runtime_session = sid]
        ELSE [opened EXCEPT !.state = "loaded", !.runtime_session = sid,
                            !.forwarded = PlatformsFor(h.options)]

\* lines 103-106: the session of runtime_data is closed unless it is closed
CloseRuntimeSession(h) ==
    IF h.runtime_session = 0 THEN h
    ELSE [h EXCEPT !.sessions[h.runtime_session] = "closed"]

\* lines 90-108: async_unload_entry; unload_ok is what async_unload_platforms
\* returns
AsyncUnloadEntry(h, unload_ok) ==
    LET called == [h EXCEPT !.unloads = Append(@,
                      [forwarded |-> h.forwarded, unloaded |-> PlatformsFor(h.options)])]
    IN  IF unload_ok THEN [CloseRuntimeSession(called) EXCEPT !.state = "not_loaded"]
        ELSE [called EXCEPT !.state = "failed_unload"]

\* lines 111-113: _async_options_updated: async_reload unloads the entry and,
\* when that went well, sets it up again
AsyncOptionsUpdated(h, unload_ok, fail) ==
    IF AsyncUnloadEntry(h, unload_ok).state = "not_loaded"
    THEN AsyncSetupEntry(AsyncUnloadEntry(h, unload_ok), fail)
    ELSE AsyncUnloadEntry(h, unload_ok)

InitEntry ==
    /\ hassEntry = NewEntry
    /\ RendererIdle
    /\ QueryIdle
    /\ ImageIdle
    /\ FlowIdle

\* Home Assistant sets the entry up, the first time or again after a failure
SetupEntry ==
    /\ hassEntry.state \in {"not_loaded", "setup_error"}
    /\ hassEntry.setups < MaxSetups
    /\ \E fail \in SetupFailures : hassEntry' = AsyncSetupEntry(hassEntry, fail)
    /\ UNCHANGED notEntryVars

\* Home Assistant unloads the entry
UnloadEntry ==
    /\ hassEntry.state = "loaded"
    /\ \E unload_ok \in BOOLEAN : hassEntry' = AsyncUnloadEntry(hassEntry, unload_ok)
    /\ UNCHANGED notEntryVars

\* the options flow stores new options; the listener registered at line 85
\* runs while the entry is loaded
UpdateOptions ==
    /\ hassEntry.state \in {"loaded", "not_loaded"}
    /\ hassEntry.setups < MaxSetups
    /\ \E cal \in CalendarOptions \ {hassEntry.options.enable_calendar},
          unload_ok \in BOOLEAN, fail \in SetupFailures :
          hassEntry' =
             IF hassEntry.state = "loaded"
             THEN AsyncOptionsUpdated(
                     [hassEntry EXCEPT !.options = [enable_calendar |-> cal]],
                     unload_ok, fail)
             ELSE [hassEntry EXCEPT !.options = [enable_calendar |-> cal]]
    /\ UNCHANGED notEntryVars

NextEntry == SetupEntry \/ UnloadEntry \/ UpdateOptions

SpecEntry == InitEntry /\ [][NextEntry]_vars

\* C27: every call of async_unload_entry unloads the list of platforms that
\* the setup before it forwarded, also when enable_calendar was changed in
\* between.
C27_UnloadsWhatWasForwarded ==
    \A k \in 1..Len(hassEntry.unloads) :
        hassEntry.unloads[k].unloaded = hassEntry.unloads[k].forwarded

\* C28: the session of a setup never leaks: when a setup has failed, and when
\* the entry has been unloaded, every session a setup created is closed.
C28_SessionNeverLeaks ==
    hassEntry.state \in {"setup_error", "not_loaded"} =>
        \A k \in 1..Len(hassEntry.sessions) : hassEntry.sessions[k] = "closed"

----------------------------------------------------------------------------
(* SpecFlow: the user step of the config flow.  Each call of                *)
(* async_step_user is one step; flow.steps keeps, for every call, what the  *)
(* sign-in endpoints and the test query answered, what                      *)
(* validate_credentials returned or raised, the state of the temporary      *)
(* session and the result of the step.                                      *)

\* calls of async_step_user in one flow
MaxSteps == 2

\* {"me": ...}
MeData(me) == [t |-> "dict", me |-> me]

\* what graphql_query("{ me { id } }") returns or raises: a user with an id,
\* with an empty id, with id null, me null, no me, and the two errors
TestQueryOutcomes ==
    {Ok(MeData([t |-> "dict", id |-> StrV("42")])),
     Ok(MeData([t |-> "dict", id |-> StrV("")])),
     Ok(MeData([t |-> "dict", id |-> None])),
     Ok(MeData(None)), Ok(MeData(Absent)),
     Raise("SeedtimeAuthError"), Raise("SeedtimeConnectionError")}

\* api.py lines 426-430: validate_credentials; result.get("me", {}) is None
\* when me is null, and None has no get
ValidateCredentials(sc, q) ==
    IF ~Authenticate(sc).ok THEN Authenticate(sc)
    ELSE IF ~q.ok THEN q
    ELSE IF q.v.me = None THEN Raise("AttributeError")
    ELSE IF q.v.me = Absent THEN Ok(FALSE)
    ELSE Ok(Truthy(Get(q.v.me.id)))

\* lines 67-73: the error of the form for an exception
ErrorFor(exc) ==
    IF exc = "SeedtimeAuthError" THEN "invalid_auth"
    ELSE IF exc = "SeedtimeConnectionError" THEN "cannot_connect"
    ELSE "unknown"

\* lines 53-99: async_step_user; has_input: user_input is not None;
\* configured: an entry with this email exists
AsyncStepUser(has_input, configured, sc, q) ==
    IF ~has_input
    THEN [result |-> "form", error |-> "", validated |-> Ok("not run"),
          session |-> "none", login |-> sc, answer |-> q]
    ELSE IF configured
    THEN [result |-> "abort", error |-> "already_configured",
          validated |-> Ok("not run"), session |-> "none", login |-> sc, answer |-> q]
    ELSE IF ValidateCredentials(sc, q).ok
    THEN [result |-> "create_entry", error |-> "",
          validated |-> ValidateCredentials(sc, q), session |-> "closed",
          login |-> sc, answer |-> q]
    ELSE [result |-> "form", error |-> ErrorFor(ValidateCredentials(sc, q).exc),
          validated |-> ValidateCredentials(sc, q), session |-> "closed",
          login |-> sc, answer |-> q]

InitFlow ==
    /\ flow = [pc |-> "open", steps |-> <<>>]
    /\ RendererIdle
    /\ QueryIdle
    /\ ImageIdle
    /\ EntryIdle

\* the form is shown, or submitted
StepUser ==
    /\ flow.pc = "open"
    /\ Len(flow.steps) < MaxSteps
    /\ \E has_input \in BOOLEAN, configured \in BOOLEAN,
          sc \in LoginScenarios, q \in TestQueryOutcomes :
          flow' = [pc |-> IF AsyncStepUser(has_input, configured, sc, q).result = "form"
                          THEN "open" ELSE "finished",
                   steps |-> Append(flow.steps,
                                    AsyncStepUser(has_input, configured, sc, q))]
    /\ UNCHANGED notFlowVars

NextFlow == StepUser

SpecFlow == InitFlow /\ [][NextFlow]_vars

\* C29: the user step creates a config entry only when validate_credentials
\* returned True (the test query yielded a user id), and in every outcome of
\* a step that opened a session the session is closed.
C29_EntryOnlyIfValidated ==
    \A k \in 1..Len(flow.steps) :
        /\ flow.steps[k].result = "create_entry" => flow.steps[k].validated = Ok(TRUE)
        /\ flow.steps[k].session # "open"

====
